---------------------------- MODULE Spec2Model ----------------------------
(***************************************************************************)
(* A model of the Ruby language server's index and name resolution:        *)
(*   - the symbol graph builder (parsers_v2: parse, parse_class,           *)
(*     parse_method, parse_assignment, parse_constant, parse_call),        *)
(*   - the scope computation (parsers/scopes.rs),                          *)
(*   - the project indexer (indexer.rs: index, index_dir,                  *)
(*     index_file_cursor, build_file_index),                               *)
(*   - the finder (finder.rs: find_definition and what it calls).          *)
(* The syntax trees are those of three small Ruby files, node for node as   *)
(* tree-sitter-ruby shapes them; the request handler's inputs are a file   *)
(* and the node the cursor is on.                                          *)
(***************************************************************************)
EXTENDS Integers, Sequences, FiniteSets, TLC

VARIABLES
    disk,             \* the source files on disk, each as the tree read_file_tree parses from it
    root_exists,      \* the project root directory is still there
    locked,           \* the project holds a file lib/locked.rb that cannot be read
    overflow_checks,  \* the build: TRUE when integer overflow panics (dev profile)
    root_in_gems, ruby_version,  \* the installation: root_dir lies inside the gems directory 
    pc,               \* Server::new / main loop: "new", "failed", "boot", "walking", "serving", "responding", "crashed"
    dir_i,            \* Indexer::index: position in [stubs_dir, gems_dir, root_dir]
    pending,          \* Indexer::index_dir: files of the directory no worker has taken yet
    dir_symbols,      \* Indexer::index_dir: the directory's collected symbols
    collected,        \* Indexer::index: symbols of the directories walked so far
    index_runs,       \* how many times Indexer::index has returned
    symbols,          \* Indexer.symbols / Finder.symbols
    file_index,       \* Indexer.file_index
    req,              \* the request being answered
    outcome,          \* its result: "none", "ok", "err", "panic"
    result,           \* the Vec<Arc<RSymbolV2>> it returned
    token_counter,    \* ProgressReporter.token_counter
    progress_token,   \* Indexer::index_dir: the token of its begin notification (0: none)
    notifications     \* the $/progress notifications sent to the client, in order

progress_vars == << token_counter, progress_token, notifications >>

vars == << disk, root_exists, locked, overflow_checks, root_in_gems, ruby_version, pc,
           dir_i, pending, dir_symbols, collected, index_runs, symbols, file_index, req,
           outcome, result, token_counter, progress_token, notifications >>

-----------------------------------------------------------------------------
(* types.rs: the closed vocabulary of node kinds, and the global sentinel.  *)

GLOBAL_SCOPE_VALUE == "$GLOBAL"

SCOPE_DELIMITER == "::"

NodeKind ==
    { "class", "module", "method", "singleton_method", "assignment", "program",
      "comment", "call", "constant", "left_assignment_list", "global_variable",
      "scope_resolution", "class_variable", "instance_variable", "identifier",
      "rest_assignment", "optional_parameter", "keyword_parameter", "self" }

-----------------------------------------------------------------------------
(* The files on disk and the trees read_file_tree / IndexingContext::new    *)
(* get for them.  A node is a record: its kind, whether it is a named node, *)
(* its parent (0: none), its text, its start and end points <<row, column>>,*)
(* its children by field name, and all its children in order.               *)

(* TreeABC holds the tree of:
     module A
       module B
         class C
           D = 1
           D
         end
       end
     end
     D = 2
     class Outer::Inner
     end
     class K; def self.q; r; end; def r; q; nil.r; v.r; end; end
     $h = v.r
*)
TreeABC ==
  << [kind |-> "program", named |-> TRUE, parent |-> 0, text |-> "", start |-> <<0, 0>>, end |-> <<13, 0>>, f |-> <<>>, children |-> <<2, 22, 26, 33, 69>>],
     [kind |-> "module", named |-> TRUE, parent |-> 1, text |-> "", start |-> <<0, 0>>, end |-> <<7, 3>>, f |-> [body |-> 5, name |-> 4], children |-> <<3, 4, 5, 21>>],
     [kind |-> "module", named |-> FALSE, parent |-> 2, text |-> "module", start |-> <<0, 0>>, end |-> <<0, 6>>, f |-> <<>>, children |-> <<>>],
     [kind |-> "constant", named |-> TRUE, parent |-> 2, text |-> "A", start |-> <<0, 7>>, end |-> <<0, 8>>, f |-> <<>>, children |-> <<>>],
     [kind |-> "body_statement", named |-> TRUE, parent |-> 2, text |-> "", start |-> <<1, 2>>, end |-> <<6, 5>>, f |-> <<>>, children |-> <<6>>],
     [kind |-> "module", named |-> TRUE, parent |-> 5, text |-> "", start |-> <<1, 2>>, end |-> <<6, 5>>, f |-> [body |-> 9, name |-> 8], children |-> <<7, 8, 9, 20>>],
     [kind |-> "module", named |-> FALSE, parent |-> 6, text |-> "module", start |-> <<1, 2>>, end |-> <<1, 8>>, f |-> <<>>, children |-> <<>>],
     [kind |-> "constant", named |-> TRUE, parent |-> 6, text |-> "B", start |-> <<1, 9>>, end |-> <<1, 10>>, f |-> <<>>, children |-> <<>>],
     [kind |-> "body_statement", named |-> TRUE, parent |-> 6, text |-> "", start |-> <<2, 4>>, end |-> <<5, 7>>, f |-> <<>>, children |-> <<10>>],
     [kind |-> "class", named |-> TRUE, parent |-> 9, text |-> "", start |-> <<2, 4>>, end |-> <<5, 7>>, f |-> [body |-> 13, name |-> 12], children |-> <<11, 12, 13, 19>>],
     [kind |-> "class", named |-> FALSE, parent |-> 10, text |-> "class", start |-> <<2, 4>>, end |-> <<2, 9>>, f |-> <<>>, children |-> <<>>],
     [kind |-> "constant", named |-> TRUE, parent |-> 10, text |-> "C", start |-> <<2, 10>>, end |-> <<2, 11>>, f |-> <<>>, children |-> <<>>],
     [kind |-> "body_statement", named |-> TRUE, parent |-> 10, text |-> "", start |-> <<3, 6>>, end |-> <<4, 7>>, f |-> <<>>, children |-> <<14, 18>>],
     [kind |-> "assignment", named |-> TRUE, parent |-> 13, text |-> "", start |-> <<3, 6>>, end |-> <<3, 11>>, f |-> [left |-> 15, right |-> 17], children |-> <<15, 16, 17>>],
     [kind |-> "constant", named |-> TRUE, parent |-> 14, text |-> "D", start |-> <<3, 6>>, end |-> <<3, 7>>, f |-> <<>>, children |-> <<>>],
     [kind |-> "=", named |-> FALSE, parent |-> 14, text |-> "=", start |-> <<3, 8>>, end |-> <<3, 9>>, f |-> <<>>, children |-> <<>>],
     [kind |-> "integer", named |-> TRUE, parent |-> 14, text |-> "1", start |-> <<3, 10>>, end |-> <<3, 11>>, f |-> <<>>, children |-> <<>>],
     [kind |-> "constant", named |-> TRUE, parent |-> 13, text |-> "D", start |-> <<4, 6>>, end |-> <<4, 7>>, f |-> <<>>, children |-> <<>>],
     [kind |-> "end", named |-> FALSE, parent |-> 10, text |-> "end", start |-> <<5, 4>>, end |-> <<5, 7>>, f |-> <<>>, children |-> <<>>],
     [kind |-> "end", named |-> FALSE, parent |-> 6, text |-> "end", start |-> <<6, 2>>, end |-> <<6, 5>>, f |-> <<>>, children |-> <<>>],
     [kind |-> "end", named |-> FALSE, parent |-> 2, text |-> "end", start |-> <<7, 0>>, end |-> <<7, 3>>, f |-> <<>>, children |-> <<>>],
     [kind |-> "assignment", named |-> TRUE, parent |-> 1, text |-> "", start |-> <<8, 0>>, end |-> <<8, 5>>, f |-> [left |-> 23, right |-> 25], children |-> <<23, 24, 25>>],
     [kind |-> "constant", named |-> TRUE, parent |-> 22, text |-> "D", start |-> <<8, 0>>, end |-> <<8, 1>>, f |-> <<>>, children |-> <<>>],
     [kind |-> "=", named |-> FALSE, parent |-> 22, text |-> "=", start |-> <<8, 2>>, end |-> <<8, 3>>, f |-> <<>>, children |-> <<>>],
     [kind |-> "integer", named |-> TRUE, parent |-> 22, text |-> "2", start |-> <<8, 4>>, end |-> <<8, 5>>, f |-> <<>>, children |-> <<>>],
     [kind |-> "class", named |-> TRUE, parent |-> 1, text |-> "", start |-> <<9, 0>>, end |-> <<10, 3>>, f |-> [name |-> 28], children |-> <<27, 28, 32>>],
     [kind |-> "class", named |-> FALSE, parent |-> 26, text |-> "class", start |-> <<9, 0>>, end |-> <<9, 5>>, f |-> <<>>, children |-> <<>>],
     [kind |-> "scope_resolution", named |-> TRUE, parent |-> 26, text |-> "Outer::Inner", start |-> <<9, 6>>, end |-> <<9, 18>>, f |-> [name |-> 31, scope |-> 29], children |-> <<29, 30, 31>>],
     [kind |-> "constant", named |-> TRUE, parent |-> 28, text |-> "Outer", start |-> <<9, 6>>, end |-> <<9, 11>>, f |-> <<>>, children |-> <<>>],
     [kind |-> "::", named |-> FALSE, parent |-> 28, text |-> "::", start |-> <<9, 11>>, end |-> <<9, 13>>, f |-> <<>>, children |-> <<>>],
     [kind |-> "constant", named |-> TRUE, parent |-> 28, text |-> "Inner", start |-> <<9, 13>>, end |-> <<9, 18>>, f |-> <<>>, children |-> <<>>],
     [kind |-> "end", named |-> FALSE, parent |-> 26, text |-> "end", start |-> <<10, 0>>, end |-> <<10, 3>>, f |-> <<>>, children |-> <<>>],
     [kind |-> "class", named |-> TRUE, parent |-> 1, text |-> "", start |-> <<11, 0>>, end |-> <<11, 59>>, f |-> [body |-> 37, name |-> 35], children |-> <<34, 35, 36, 37, 68>>],
     [kind |-> "class", named |-> FALSE, parent |-> 33, text |-> "class", start |-> <<11, 0>>, end |-> <<11, 5>>, f |-> <<>>, children |-> <<>>],
     [kind |-> "constant", named |-> TRUE, parent |-> 33, text |-> "K", start |-> <<11, 6>>, end |-> <<11, 7>>, f |-> <<>>, children |-> <<>>],
     [kind |-> ";", named |-> FALSE, parent |-> 33, text |-> ";", start |-> <<11, 7>>, end |-> <<11, 8>>, f |-> <<>>, children |-> <<>>],
     [kind |-> "body_statement", named |-> TRUE, parent |-> 33, text |-> "", start |-> <<11, 9>>, end |-> <<11, 55>>, f |-> <<>>, children |-> <<38, 48, 49, 67>>],
     [kind |-> "singleton_method", named |-> TRUE, parent |-> 37, text |-> "", start |-> <<11, 9>>, end |-> <<11, 27>>, f |-> [body |-> 44, name |-> 42, object |-> 40], children |-> <<39, 40, 41, 42, 43, 44, 47>>],
     [kind |-> "def", named |-> FALSE, parent |-> 38, text |-> "def", start |-> <<11, 9>>, end |-> <<11, 12>>, f |-> <<>>, children |-> <<>>],
     [kind |-> "self", named |-> TRUE, parent |-> 38, text |-> "self", start |-> <<11, 13>>, end |-> <<11, 17>>, f |-> <<>>, children |-> <<>>],
     [kind |-> ".", named |-> FALSE, parent |-> 38, text |-> ".", start |-> <<11, 17>>, end |-> <<11, 18>>, f |-> <<>>, children |-> <<>>],
     [kind |-> "identifier", named |-> TRUE, parent |-> 38, text |-> "q", start |-> <<11, 18>>, end |-> <<11, 19>>, f |-> <<>>, children |-> <<>>],
     [kind |-> ";", named |-> FALSE, parent |-> 38, text |-> ";", start |-> <<11, 19>>, end |-> <<11, 20>>, f |-> <<>>, children |-> <<>>],
     [kind |-> "body_statement", named |-> TRUE, parent |-> 38, text |-> "", start |-> <<11, 21>>, end |-> <<11, 23>>, f |-> <<>>, children |-> <<45, 46>>],
     [kind |-> "identifier", named |-> TRUE, parent |-> 44, text |-> "r", start |-> <<11, 21>>, end |-> <<11, 22>>, f |-> <<>>, children |-> <<>>],
     [kind |-> ";", named |-> FALSE, parent |-> 44, text |-> ";", start |-> <<11, 22>>, end |-> <<11, 23>>, f |-> <<>>, children |-> <<>>],
     [kind |-> "end", named |-> FALSE, parent |-> 38, text |-> "end", start |-> <<11, 24>>, end |-> <<11, 27>>, f |-> <<>>, children |-> <<>>],
     [kind |-> ";", named |-> FALSE, parent |-> 37, text |-> ";", start |-> <<11, 27>>, end |-> <<11, 28>>, f |-> <<>>, children |-> <<>>],
     [kind |-> "method", named |-> TRUE, parent |-> 37, text |-> "", start |-> <<11, 29>>, end |-> <<11, 54>>, f |-> [body |-> 53, name |-> 51], children |-> <<50, 51, 52, 53, 66>>],
     [kind |-> "def", named |-> FALSE, parent |-> 49, text |-> "def", start |-> <<11, 29>>, end |-> <<11, 32>>, f |-> <<>>, children |-> <<>>],
     [kind |-> "identifier", named |-> TRUE, parent |-> 49, text |-> "r", start |-> <<11, 33>>, end |-> <<11, 34>>, f |-> <<>>, children |-> <<>>],
     [kind |-> ";", named |-> FALSE, parent |-> 49, text |-> ";", start |-> <<11, 34>>, end |-> <<11, 35>>, f |-> <<>>, children |-> <<>>],
     [kind |-> "body_statement", named |-> TRUE, parent |-> 49, text |-> "", start |-> <<11, 36>>, end |-> <<11, 50>>, f |-> <<>>, children |-> <<54, 55, 56, 60, 61, 65>>],
     [kind |-> "identifier", named |-> TRUE, parent |-> 53, text |-> "q", start |-> <<11, 36>>, end |-> <<11, 37>>, f |-> <<>>, children |-> <<>>],
     [kind |-> ";", named |-> FALSE, parent |-> 53, text |-> ";", start |-> <<11, 37>>, end |-> <<11, 38>>, f |-> <<>>, children |-> <<>>],
     [kind |-> "call", named |-> TRUE, parent |-> 53, text |-> "", start |-> <<11, 39>>, end |-> <<11, 44>>, f |-> [method |-> 59, receiver |-> 57], children |-> <<57, 58, 59>>],
     [kind |-> "nil", named |-> TRUE, parent |-> 56, text |-> "", start |-> <<11, 39>>, end |-> <<11, 42>>, f |-> <<>>, children |-> <<>>],
     [kind |-> ".", named |-> FALSE, parent |-> 56, text |-> ".", start |-> <<11, 42>>, end |-> <<11, 43>>, f |-> <<>>, children |-> <<>>],
     [kind |-> "identifier", named |-> TRUE, parent |-> 56, text |-> "r", start |-> <<11, 43>>, end |-> <<11, 44>>, f |-> <<>>, children |-> <<>>],
     [kind |-> ";", named |-> FALSE, parent |-> 53, text |-> ";", start |-> <<11, 44>>, end |-> <<11, 45>>, f |-> <<>>, children |-> <<>>],
     [kind |-> "call", named |-> TRUE, parent |-> 53, text |-> "", start |-> <<11, 46>>, end |-> <<11, 49>>, f |-> [method |-> 64, receiver |-> 62], children |-> <<62, 63, 64>>],
     [kind |-> "identifier", named |-> TRUE, parent |-> 61, text |-> "v", start |-> <<11, 46>>, end |-> <<11, 47>>, f |-> <<>>, children |-> <<>>],
     [kind |-> ".", named |-> FALSE, parent |-> 61, text |-> ".", start |-> <<11, 47>>, end |-> <<11, 48>>, f |-> <<>>, children |-> <<>>],
     [kind |-> "identifier", named |-> TRUE, parent |-> 61, text |-> "r", start |-> <<11, 48>>, end |-> <<11, 49>>, f |-> <<>>, children |-> <<>>],
     [kind |-> ";", named |-> FALSE, parent |-> 53, text |-> ";", start |-> <<11, 49>>, end |-> <<11, 50>>, f |-> <<>>, children |-> <<>>],
     [kind |-> "end", named |-> FALSE, parent |-> 49, text |-> "end", start |-> <<11, 51>>, end |-> <<11, 54>>, f |-> <<>>, children |-> <<>>],
     [kind |-> ";", named |-> FALSE, parent |-> 37, text |-> ";", start |-> <<11, 54>>, end |-> <<11, 55>>, f |-> <<>>, children |-> <<>>],
     [kind |-> "end", named |-> FALSE, parent |-> 33, text |-> "end", start |-> <<11, 56>>, end |-> <<11, 59>>, f |-> <<>>, children |-> <<>>],
     [kind |-> "assignment", named |-> TRUE, parent |-> 1, text |-> "", start |-> <<12, 0>>, end |-> <<12, 8>>, f |-> [left |-> 70, right |-> 72], children |-> <<70, 71, 72>>],
     [kind |-> "global_variable", named |-> TRUE, parent |-> 69, text |-> "$h", start |-> <<12, 0>>, end |-> <<12, 2>>, f |-> <<>>, children |-> <<>>],
     [kind |-> "=", named |-> FALSE, parent |-> 69, text |-> "=", start |-> <<12, 3>>, end |-> <<12, 4>>, f |-> <<>>, children |-> <<>>],
     [kind |-> "call", named |-> TRUE, parent |-> 69, text |-> "", start |-> <<12, 5>>, end |-> <<12, 8>>, f |-> [method |-> 75, receiver |-> 73], children |-> <<73, 74, 75>>],
     [kind |-> "identifier", named |-> TRUE, parent |-> 72, text |-> "v", start |-> <<12, 5>>, end |-> <<12, 6>>, f |-> <<>>, children |-> <<>>],
     [kind |-> ".", named |-> FALSE, parent |-> 72, text |-> ".", start |-> <<12, 6>>, end |-> <<12, 7>>, f |-> <<>>, children |-> <<>>],
     [kind |-> "identifier", named |-> TRUE, parent |-> 72, text |-> "r", start |-> <<12, 7>>, end |-> <<12, 8>>, f |-> <<>>, children |-> <<>>] >>

(* TreeM holds the tree of:
     module M
       Foo = 5
       ::Foo
       include ::G::S
       Outer::Inner
     end
     class ::G::S
     end
     module A::B
       class C
         D = 6
         D
       end
     end
     module P
       Foo = 8
       module P
         ::Foo
       end
     end
     class W
       def foo(x, k)
         k
         x = 1
         x
         x = 2
         x
         q
         k = 3
         k
       end
       v
     end
     t
     $g = 7
     $g
     module A; class B; def foo(x); y = x; y; end; end; end
     class V; def bar(k); k = 3; k; k = 4; k; end; def baz(k); x = 1; k = 3; k; end; end
     self::Foo
*)
TreeM ==
  << [kind |-> "program", named |-> TRUE, parent |-> 0, text |-> "", start |-> <<0, 0>>, end |-> <<39, 0>>, f |-> <<>>, children |-> <<2, 27, 36, 54, 71, 105, 106, 110, 111, 142, 196>>],
     [kind |-> "module", named |-> TRUE, parent |-> 1, text |-> "", start |-> <<0, 0>>, end |-> <<5, 3>>, f |-> [body |-> 5, name |-> 4], children |-> <<3, 4, 5, 26>>],
     [kind |-> "module", named |-> FALSE, parent |-> 2, text |-> "module", start |-> <<0, 0>>, end |-> <<0, 6>>, f |-> <<>>, children |-> <<>>],
     [kind |-> "constant", named |-> TRUE, parent |-> 2, text |-> "M", start |-> <<0, 7>>, end |-> <<0, 8>>, f |-> <<>>, children |-> <<>>],
     [kind |-> "body_statement", named |-> TRUE, parent |-> 2, text |-> "", start |-> <<1, 2>>, end |-> <<4, 14>>, f |-> <<>>, children |-> <<6, 10, 13, 22>>],
     [kind |-> "assignment", named |-> TRUE, parent |-> 5, text |-> "", start |-> <<1, 2>>, end |-> <<1, 9>>, f |-> [left |-> 7, right |-> 9], children |-> <<7, 8, 9>>],
     [kind |-> "constant", named |-> TRUE, parent |-> 6, text |-> "Foo", start |-> <<1, 2>>, end |-> <<1, 5>>, f |-> <<>>, children |-> <<>>],
     [kind |-> "=", named |-> FALSE, parent |-> 6, text |-> "=", start |-> <<1, 6>>, end |-> <<1, 7>>, f |-> <<>>, children |-> <<>>],
     [kind |-> "integer", named |-> TRUE, parent |-> 6, text |-> "5", start |-> <<1, 8>>, end |-> <<1, 9>>, f |-> <<>>, children |-> <<>>],
     [kind |-> "scope_resolution", named |-> TRUE, parent |-> 5, text |-> "::Foo", start |-> <<2, 2>>, end |-> <<2, 7>>, f |-> [name |-> 12], children |-> <<11, 12>>],
     [kind |-> "::", named |-> FALSE, parent |-> 10, text |-> "::", start |-> <<2, 2>>, end |-> <<2, 4>>, f |-> <<>>, children |-> <<>>],
     [kind |-> "constant", named |-> TRUE, parent |-> 10, text |-> "Foo", start |-> <<2, 4>>, end |-> <<2, 7>>, f |-> <<>>, children |-> <<>>],
     [kind |-> "call", named |-> TRUE, parent |-> 5, text |-> "", start |-> <<3, 2>>, end |-> <<3, 16>>, f |-> [arguments |-> 15, method |-> 14], children |-> <<14, 15>>],
     [kind |-> "identifier", named |-> TRUE, parent |-> 13, text |-> "include", start |-> <<3, 2>>, end |-> <<3, 9>>, f |-> <<>>, children |-> <<>>],
     [kind |-> "argument_list", named |-> TRUE, parent |-> 13, text |-> "", start |-> <<3, 10>>, end |-> <<3, 16>>, f |-> <<>>, children |-> <<16>>],
     [kind |-> "scope_resolution", named |-> TRUE, parent |-> 15, text |-> "::G::S", start |-> <<3, 10>>, end |-> <<3, 16>>, f |-> [name |-> 21, scope |-> 17], children |-> <<17, 20, 21>>],
     [kind |-> "scope_resolution", named |-> TRUE, parent |-> 16, text |-> "::G", start |-> <<3, 10>>, end |-> <<3, 13>>, f |-> [name |-> 19], children |-> <<18, 19>>],
     [kind |-> "::", named |-> FALSE, parent |-> 17, text |-> "::", start |-> <<3, 10>>, end |-> <<3, 12>>, f |-> <<>>, children |-> <<>>],
     [kind |-> "constant", named |-> TRUE, parent |-> 17, text |-> "G", start |-> <<3, 12>>, end |-> <<3, 13>>, f |-> <<>>, children |-> <<>>],
     [kind |-> "::", named |-> FALSE, parent |-> 16, text |-> "::", start |-> <<3, 13>>, end |-> <<3, 15>>, f |-> <<>>, children |-> <<>>],
     [kind |-> "constant", named |-> TRUE, parent |-> 16, text |-> "S", start |-> <<3, 15>>, end |-> <<3, 16>>, f |-> <<>>, children |-> <<>>],
     [kind |-> "scope_resolution", named |-> TRUE, parent |-> 5, text |-> "Outer::Inner", start |-> <<4, 2>>, end |-> <<4, 14>>, f |-> [name |-> 25, scope |-> 23], children |-> <<23, 24, 25>>],
     [kind |-> "constant", named |-> TRUE, parent |-> 22, text |-> "Outer", start |-> <<4, 2>>, end |-> <<4, 7>>, f |-> <<>>, children |-> <<>>],
     [kind |-> "::", named |-> FALSE, parent |-> 22, text |-> "::", start |-> <<4, 7>>, end |-> <<4, 9>>, f |-> <<>>, children |-> <<>>],
     [kind |-> "constant", named |-> TRUE, parent |-> 22, text |-> "Inner", start |-> <<4, 9>>, end |-> <<4, 14>>, f |-> <<>>, children |-> <<>>],
     [kind |-> "end", named |-> FALSE, parent |-> 2, text |-> "end", start |-> <<5, 0>>, end |-> <<5, 3>>, f |-> <<>>, children |-> <<>>],
     [kind |-> "class", named |-> TRUE, parent |-> 1, text |-> "", start |-> <<6, 0>>, end |-> <<7, 3>>, f |-> [name |-> 29], children |-> <<28, 29, 35>>],
     [kind |-> "class", named |-> FALSE, parent |-> 27, text |-> "class", start |-> <<6, 0>>, end |-> <<6, 5>>, f |-> <<>>, children |-> <<>>],
     [kind |-> "scope_resolution", named |-> TRUE, parent |-> 27, text |-> "::G::S", start |-> <<6, 6>>, end |-> <<6, 12>>, f |-> [name |-> 34, scope |-> 30], children |-> <<30, 33, 34>>],
     [kind |-> "scope_resolution", named |-> TRUE, parent |-> 29, text |-> "::G", start |-> <<6, 6>>, end |-> <<6, 9>>, f |-> [name |-> 32], children |-> <<31, 32>>],
     [kind |-> "::", named |-> FALSE, parent |-> 30, text |-> "::", start |-> <<6, 6>>, end |-> <<6, 8>>, f |-> <<>>, children |-> <<>>],
     [kind |-> "constant", named |-> TRUE, parent |-> 30, text |-> "G", start |-> <<6, 8>>, end |-> <<6, 9>>, f |-> <<>>, children |-> <<>>],
     [kind |-> "::", named |-> FALSE, parent |-> 29, text |-> "::", start |-> <<6, 9>>, end |-> <<6, 11>>, f |-> <<>>, children |-> <<>>],
     [kind |-> "constant", named |-> TRUE, parent |-> 29, text |-> "S", start |-> <<6, 11>>, end |-> <<6, 12>>, f |-> <<>>, children |-> <<>>],
     [kind |-> "end", named |-> FALSE, parent |-> 27, text |-> "end", start |-> <<7, 0>>, end |-> <<7, 3>>, f |-> <<>>, children |-> <<>>],
     [kind |-> "module", named |-> TRUE, parent |-> 1, text |-> "", start |-> <<8, 0>>, end |-> <<13, 3>>, f |-> [body |-> 42, name |-> 38], children |-> <<37, 38, 42, 53>>],
     [kind |-> "module", named |-> FALSE, parent |-> 36, text |-> "module", start |-> <<8, 0>>, end |-> <<8, 6>>, f |-> <<>>, children |-> <<>>],
     [kind |-> "scope_resolution", named |-> TRUE, parent |-> 36, text |-> "A::B", start |-> <<8, 7>>, end |-> <<8, 11>>, f |-> [name |-> 41, scope |-> 39], children |-> <<39, 40, 41>>],
     [kind |-> "constant", named |-> TRUE, parent |-> 38, text |-> "A", start |-> <<8, 7>>, end |-> <<8, 8>>, f |-> <<>>, children |-> <<>>],
     [kind |-> "::", named |-> FALSE, parent |-> 38, text |-> "::", start |-> <<8, 8>>, end |-> <<8, 10>>, f |-> <<>>, children |-> <<>>],
     [kind |-> "constant", named |-> TRUE, parent |-> 38, text |-> "B", start |-> <<8, 10>>, end |-> <<8, 11>>, f |-> <<>>, children |-> <<>>],
     [kind |-> "body_statement", named |-> TRUE, parent |-> 36, text |-> "", start |-> <<9, 2>>, end |-> <<12, 5>>, f |-> <<>>, children |-> <<43>>],
     [kind |-> "class", named |-> TRUE, parent |-> 42, text |-> "", start |-> <<9, 2>>, end |-> <<12, 5>>, f |-> [body |-> 46, name |-> 45], children |-> <<44, 45, 46, 52>>],
     [kind |-> "class", named |-> FALSE, parent |-> 43, text |-> "class", start |-> <<9, 2>>, end |-> <<9, 7>>, f |-> <<>>, children |-> <<>>],
     [kind |-> "constant", named |-> TRUE, parent |-> 43, text |-> "C", start |-> <<9, 8>>, end |-> <<9, 9>>, f |-> <<>>, children |-> <<>>],
     [kind |-> "body_statement", named |-> TRUE, parent |-> 43, text |-> "", start |-> <<10, 4>>, end |-> <<11, 5>>, f |-> <<>>, children |-> <<47, 51>>],
     [kind |-> "assignment", named |-> TRUE, parent |-> 46, text |-> "", start |-> <<10, 4>>, end |-> <<10, 9>>, f |-> [left |-> 48, right |-> 50], children |-> <<48, 49, 50>>],
     [kind |-> "constant", named |-> TRUE, parent |-> 47, text |-> "D", start |-> <<10, 4>>, end |-> <<10, 5>>, f |-> <<>>, children |-> <<>>],
     [kind |-> "=", named |-> FALSE, parent |-> 47, text |-> "=", start |-> <<10, 6>>, end |-> <<10, 7>>, f |-> <<>>, children |-> <<>>],
     [kind |-> "integer", named |-> TRUE, parent |-> 47, text |-> "6", start |-> <<10, 8>>, end |-> <<10, 9>>, f |-> <<>>, children |-> <<>>],
     [kind |-> "constant", named |-> TRUE, parent |-> 46, text |-> "D", start |-> <<11, 4>>, end |-> <<11, 5>>, f |-> <<>>, children |-> <<>>],
     [kind |-> "end", named |-> FALSE, parent |-> 43, text |-> "end", start |-> <<12, 2>>, end |-> <<12, 5>>, f |-> <<>>, children |-> <<>>],
     [kind |-> "end", named |-> FALSE, parent |-> 36, text |-> "end", start |-> <<13, 0>>, end |-> <<13, 3>>, f |-> <<>>, children |-> <<>>],
     [kind |-> "module", named |-> TRUE, parent |-> 1, text |-> "", start |-> <<14, 0>>, end |-> <<19, 3>>, f |-> [body |-> 57, name |-> 56], children |-> <<55, 56, 57, 70>>],
     [kind |-> "module", named |-> FALSE, parent |-> 54, text |-> "module", start |-> <<14, 0>>, end |-> <<14, 6>>, f |-> <<>>, children |-> <<>>],
     [kind |-> "constant", named |-> TRUE, parent |-> 54, text |-> "P", start |-> <<14, 7>>, end |-> <<14, 8>>, f |-> <<>>, children |-> <<>>],
     [kind |-> "body_statement", named |-> TRUE, parent |-> 54, text |-> "", start |-> <<15, 2>>, end |-> <<18, 5>>, f |-> <<>>, children |-> <<58, 62>>],
     [kind |-> "assignment", named |-> TRUE, parent |-> 57, text |-> "", start |-> <<15, 2>>, end |-> <<15, 9>>, f |-> [left |-> 59, right |-> 61], children |-> <<59, 60, 61>>],
     [kind |-> "constant", named |-> TRUE, parent |-> 58, text |-> "Foo", start |-> <<15, 2>>, end |-> <<15, 5>>, f |-> <<>>, children |-> <<>>],
     [kind |-> "=", named |-> FALSE, parent |-> 58, text |-> "=", start |-> <<15, 6>>, end |-> <<15, 7>>, f |-> <<>>, children |-> <<>>],
     [kind |-> "integer", named |-> TRUE, parent |-> 58, text |-> "8", start |-> <<15, 8>>, end |-> <<15, 9>>, f |-> <<>>, children |-> <<>>],
     [kind |-> "module", named |-> TRUE, parent |-> 57, text |-> "", start |-> <<16, 2>>, end |-> <<18, 5>>, f |-> [body |-> 65, name |-> 64], children |-> <<63, 64, 65, 69>>],
     [kind |-> "module", named |-> FALSE, parent |-> 62, text |-> "module", start |-> <<16, 2>>, end |-> <<16, 8>>, f |-> <<>>, children |-> <<>>],
     [kind |-> "constant", named |-> TRUE, parent |-> 62, text |-> "P", start |-> <<16, 9>>, end |-> <<16, 10>>, f |-> <<>>, children |-> <<>>],
     [kind |-> "body_statement", named |-> TRUE, parent |-> 62, text |-> "", start |-> <<17, 4>>, end |-> <<17, 9>>, f |-> <<>>, children |-> <<66>>],
     [kind |-> "scope_resolution", named |-> TRUE, parent |-> 65, text |-> "::Foo", start |-> <<17, 4>>, end |-> <<17, 9>>, f |-> [name |-> 68], children |-> <<67, 68>>],
     [kind |-> "::", named |-> FALSE, parent |-> 66, text |-> "::", start |-> <<17, 4>>, end |-> <<17, 6>>, f |-> <<>>, children |-> <<>>],
     [kind |-> "constant", named |-> TRUE, parent |-> 66, text |-> "Foo", start |-> <<17, 6>>, end |-> <<17, 9>>, f |-> <<>>, children |-> <<>>],
     [kind |-> "end", named |-> FALSE, parent |-> 62, text |-> "end", start |-> <<18, 2>>, end |-> <<18, 5>>, f |-> <<>>, children |-> <<>>],
     [kind |-> "end", named |-> FALSE, parent |-> 54, text |-> "end", start |-> <<19, 0>>, end |-> <<19, 3>>, f |-> <<>>, children |-> <<>>],
     [kind |-> "class", named |-> TRUE, parent |-> 1, text |-> "", start |-> <<20, 0>>, end |-> <<32, 3>>, f |-> [body |-> 74, name |-> 73], children |-> <<72, 73, 74, 104>>],
     [kind |-> "class", named |-> FALSE, parent |-> 71, text |-> "class", start |-> <<20, 0>>, end |-> <<20, 5>>, f |-> <<>>, children |-> <<>>],
     [kind |-> "constant", named |-> TRUE, parent |-> 71, text |-> "W", start |-> <<20, 6>>, end |-> <<20, 7>>, f |-> <<>>, children |-> <<>>],
     [kind |-> "body_statement", named |-> TRUE, parent |-> 71, text |-> "", start |-> <<21, 2>>, end |-> <<31, 3>>, f |-> <<>>, children |-> <<75, 103>>],
     [kind |-> "method", named |-> TRUE, parent |-> 74, text |-> "", start |-> <<21, 2>>, end |-> <<30, 5>>, f |-> [body |-> 84, name |-> 77, parameters |-> 78], children |-> <<76, 77, 78, 84, 102>>],
     [kind |-> "def", named |-> FALSE, parent |-> 75, text |-> "def", start |-> <<21, 2>>, end |-> <<21, 5>>, f |-> <<>>, children |-> <<>>],
     [kind |-> "identifier", named |-> TRUE, parent |-> 75, text |-> "foo", start |-> <<21, 6>>, end |-> <<21, 9>>, f |-> <<>>, children |-> <<>>],
     [kind |-> "method_parameters", named |-> TRUE, parent |-> 75, text |-> "", start |-> <<21, 9>>, end |-> <<21, 15>>, f |-> <<>>, children |-> <<79, 80, 81, 82, 83>>],
     [kind |-> "(", named |-> FALSE, parent |-> 78, text |-> "(", start |-> <<21, 9>>, end |-> <<21, 10>>, f |-> <<>>, children |-> <<>>],
     [kind |-> "identifier", named |-> TRUE, parent |-> 78, text |-> "x", start |-> <<21, 10>>, end |-> <<21, 11>>, f |-> <<>>, children |-> <<>>],
     [kind |-> ",", named |-> FALSE, parent |-> 78, text |-> ",", start |-> <<21, 11>>, end |-> <<21, 12>>, f |-> <<>>, children |-> <<>>],
     [kind |-> "identifier", named |-> TRUE, parent |-> 78, text |-> "k", start |-> <<21, 13>>, end |-> <<21, 14>>, f |-> <<>>, children |-> <<>>],
     [kind |-> ")", named |-> FALSE, parent |-> 78, text |-> ")", start |-> <<21, 14>>, end |-> <<21, 15>>, f |-> <<>>, children |-> <<>>],
     [kind |-> "body_statement", named |-> TRUE, parent |-> 75, text |-> "", start |-> <<22, 4>>, end |-> <<29, 5>>, f |-> <<>>, children |-> <<85, 86, 90, 91, 95, 96, 97, 101>>],
     [kind |-> "identifier", named |-> TRUE, parent |-> 84, text |-> "k", start |-> <<22, 4>>, end |-> <<22, 5>>, f |-> <<>>, children |-> <<>>],
     [kind |-> "assignment", named |-> TRUE, parent |-> 84, text |-> "", start |-> <<23, 4>>, end |-> <<23, 9>>, f |-> [left |-> 87, right |-> 89], children |-> <<87, 88, 89>>],
     [kind |-> "identifier", named |-> TRUE, parent |-> 86, text |-> "x", start |-> <<23, 4>>, end |-> <<23, 5>>, f |-> <<>>, children |-> <<>>],
     [kind |-> "=", named |-> FALSE, parent |-> 86, text |-> "=", start |-> <<23, 6>>, end |-> <<23, 7>>, f |-> <<>>, children |-> <<>>],
     [kind |-> "integer", named |-> TRUE, parent |-> 86, text |-> "1", start |-> <<23, 8>>, end |-> <<23, 9>>, f |-> <<>>, children |-> <<>>],
     [kind |-> "identifier", named |-> TRUE, parent |-> 84, text |-> "x", start |-> <<24, 4>>, end |-> <<24, 5>>, f |-> <<>>, children |-> <<>>],
     [kind |-> "assignment", named |-> TRUE, parent |-> 84, text |-> "", start |-> <<25, 4>>, end |-> <<25, 9>>, f |-> [left |-> 92, right |-> 94], children |-> <<92, 93, 94>>],
     [kind |-> "identifier", named |-> TRUE, parent |-> 91, text |-> "x", start |-> <<25, 4>>, end |-> <<25, 5>>, f |-> <<>>, children |-> <<>>],
     [kind |-> "=", named |-> FALSE, parent |-> 91, text |-> "=", start |-> <<25, 6>>, end |-> <<25, 7>>, f |-> <<>>, children |-> <<>>],
     [kind |-> "integer", named |-> TRUE, parent |-> 91, text |-> "2", start |-> <<25, 8>>, end |-> <<25, 9>>, f |-> <<>>, children |-> <<>>],
     [kind |-> "identifier", named |-> TRUE, parent |-> 84, text |-> "x", start |-> <<26, 4>>, end |-> <<26, 5>>, f |-> <<>>, children |-> <<>>],
     [kind |-> "identifier", named |-> TRUE, parent |-> 84, text |-> "q", start |-> <<27, 4>>, end |-> <<27, 5>>, f |-> <<>>, children |-> <<>>],
     [kind |-> "assignment", named |-> TRUE, parent |-> 84, text |-> "", start |-> <<28, 4>>, end |-> <<28, 9>>, f |-> [left |-> 98, right |-> 100], children |-> <<98, 99, 100>>],
     [kind |-> "identifier", named |-> TRUE, parent |-> 97, text |-> "k", start |-> <<28, 4>>, end |-> <<28, 5>>, f |-> <<>>, children |-> <<>>],
     [kind |-> "=", named |-> FALSE, parent |-> 97, text |-> "=", start |-> <<28, 6>>, end |-> <<28, 7>>, f |-> <<>>, children |-> <<>>],
     [kind |-> "integer", named |-> TRUE, parent |-> 97, text |-> "3", start |-> <<28, 8>>, end |-> <<28, 9>>, f |-> <<>>, children |-> <<>>],
     [kind |-> "identifier", named |-> TRUE, parent |-> 84, text |-> "k", start |-> <<29, 4>>, end |-> <<29, 5>>, f |-> <<>>, children |-> <<>>],
     [kind |-> "end", named |-> FALSE, parent |-> 75, text |-> "end", start |-> <<30, 2>>, end |-> <<30, 5>>, f |-> <<>>, children |-> <<>>],
     [kind |-> "identifier", named |-> TRUE, parent |-> 74, text |-> "v", start |-> <<31, 2>>, end |-> <<31, 3>>, f |-> <<>>, children |-> <<>>],
     [kind |-> "end", named |-> FALSE, parent |-> 71, text |-> "end", start |-> <<32, 0>>, end |-> <<32, 3>>, f |-> <<>>, children |-> <<>>],
     [kind |-> "identifier", named |-> TRUE, parent |-> 1, text |-> "t", start |-> <<33, 0>>, end |-> <<33, 1>>, f |-> <<>>, children |-> <<>>],
     [kind |-> "assignment", named |-> TRUE, parent |-> 1, text |-> "", start |-> <<34, 0>>, end |-> <<34, 6>>, f |-> [left |-> 107, right |-> 109], children |-> <<107, 108, 109>>],
     [kind |-> "global_variable", named |-> TRUE, parent |-> 106, text |-> "$g", start |-> <<34, 0>>, end |-> <<34, 2>>, f |-> <<>>, children |-> <<>>],
     [kind |-> "=", named |-> FALSE, parent |-> 106, text |-> "=", start |-> <<34, 3>>, end |-> <<34, 4>>, f |-> <<>>, children |-> <<>>],
     [kind |-> "integer", named |-> TRUE, parent |-> 106, text |-> "7", start |-> <<34, 5>>, end |-> <<34, 6>>, f |-> <<>>, children |-> <<>>],
     [kind |-> "global_variable", named |-> TRUE, parent |-> 1, text |-> "$g", start |-> <<35, 0>>, end |-> <<35, 2>>, f |-> <<>>, children |-> <<>>],
     [kind |-> "module", named |-> TRUE, parent |-> 1, text |-> "", start |-> <<36, 0>>, end |-> <<36, 54>>, f |-> [body |-> 115, name |-> 113], children |-> <<112, 113, 114, 115, 141>>],
     [kind |-> "module", named |-> FALSE, parent |-> 111, text |-> "module", start |-> <<36, 0>>, end |-> <<36, 6>>, f |-> <<>>, children |-> <<>>],
     [kind |-> "constant", named |-> TRUE, parent |-> 111, text |-> "A", start |-> <<36, 7>>, end |-> <<36, 8>>, f |-> <<>>, children |-> <<>>],
     [kind |-> ";", named |-> FALSE, parent |-> 111, text |-> ";", start |-> <<36, 8>>, end |-> <<36, 9>>, f |-> <<>>, children |-> <<>>],
     [kind |-> "body_statement", named |-> TRUE, parent |-> 111, text |-> "", start |-> <<36, 10>>, end |-> <<36, 50>>, f |-> <<>>, children |-> <<116, 140>>],
     [kind |-> "class", named |-> TRUE, parent |-> 115, text |-> "", start |-> <<36, 10>>, end |-> <<36, 49>>, f |-> [body |-> 120, name |-> 118], children |-> <<117, 118, 119, 120, 139>>],
     [kind |-> "class", named |-> FALSE, parent |-> 116, text |-> "class", start |-> <<36, 10>>, end |-> <<36, 15>>, f |-> <<>>, children |-> <<>>],
     [kind |-> "constant", named |-> TRUE, parent |-> 116, text |-> "B", start |-> <<36, 16>>, end |-> <<36, 17>>, f |-> <<>>, children |-> <<>>],
     [kind |-> ";", named |-> FALSE, parent |-> 116, text |-> ";", start |-> <<36, 17>>, end |-> <<36, 18>>, f |-> <<>>, children |-> <<>>],
     [kind |-> "body_statement", named |-> TRUE, parent |-> 116, text |-> "", start |-> <<36, 19>>, end |-> <<36, 45>>, f |-> <<>>, children |-> <<121, 138>>],
     [kind |-> "method", named |-> TRUE, parent |-> 120, text |-> "", start |-> <<36, 19>>, end |-> <<36, 44>>, f |-> [body |-> 129, name |-> 123, parameters |-> 124], children |-> <<122, 123, 124, 128, 129, 137>>],
     [kind |-> "def", named |-> FALSE, parent |-> 121, text |-> "def", start |-> <<36, 19>>, end |-> <<36, 22>>, f |-> <<>>, children |-> <<>>],
     [kind |-> "identifier", named |-> TRUE, parent |-> 121, text |-> "foo", start |-> <<36, 23>>, end |-> <<36, 26>>, f |-> <<>>, children |-> <<>>],
     [kind |-> "method_parameters", named |-> TRUE, parent |-> 121, text |-> "", start |-> <<36, 26>>, end |-> <<36, 29>>, f |-> <<>>, children |-> <<125, 126, 127>>],
     [kind |-> "(", named |-> FALSE, parent |-> 124, text |-> "(", start |-> <<36, 26>>, end |-> <<36, 27>>, f |-> <<>>, children |-> <<>>],
     [kind |-> "identifier", named |-> TRUE, parent |-> 124, text |-> "x", start |-> <<36, 27>>, end |-> <<36, 28>>, f |-> <<>>, children |-> <<>>],
     [kind |-> ")", named |-> FALSE, parent |-> 124, text |-> ")", start |-> <<36, 28>>, end |-> <<36, 29>>, f |-> <<>>, children |-> <<>>],
     [kind |-> ";", named |-> FALSE, parent |-> 121, text |-> ";", start |-> <<36, 29>>, end |-> <<36, 30>>, f |-> <<>>, children |-> <<>>],
     [kind |-> "body_statement", named |-> TRUE, parent |-> 121, text |-> "", start |-> <<36, 31>>, end |-> <<36, 40>>, f |-> <<>>, children |-> <<130, 134, 135, 136>>],
     [kind |-> "assignment", named |-> TRUE, parent |-> 129, text |-> "", start |-> <<36, 31>>, end |-> <<36, 36>>, f |-> [left |-> 131, right |-> 133], children |-> <<131, 132, 133>>],
     [kind |-> "identifier", named |-> TRUE, parent |-> 130, text |-> "y", start |-> <<36, 31>>, end |-> <<36, 32>>, f |-> <<>>, children |-> <<>>],
     [kind |-> "=", named |-> FALSE, parent |-> 130, text |-> "=", start |-> <<36, 33>>, end |-> <<36, 34>>, f |-> <<>>, children |-> <<>>],
     [kind |-> "identifier", named |-> TRUE, parent |-> 130, text |-> "x", start |-> <<36, 35>>, end |-> <<36, 36>>, f |-> <<>>, children |-> <<>>],
     [kind |-> ";", named |-> FALSE, parent |-> 129, text |-> ";", start |-> <<36, 36>>, end |-> <<36, 37>>, f |-> <<>>, children |-> <<>>],
     [kind |-> "identifier", named |-> TRUE, parent |-> 129, text |-> "y", start |-> <<36, 38>>, end |-> <<36, 39>>, f |-> <<>>, children |-> <<>>],
     [kind |-> ";", named |-> FALSE, parent |-> 129, text |-> ";", start |-> <<36, 39>>, end |-> <<36, 40>>, f |-> <<>>, children |-> <<>>],
     [kind |-> "end", named |-> FALSE, parent |-> 121, text |-> "end", start |-> <<36, 41>>, end |-> <<36, 44>>, f |-> <<>>, children |-> <<>>],
     [kind |-> ";", named |-> FALSE, parent |-> 120, text |-> ";", start |-> <<36, 44>>, end |-> <<36, 45>>, f |-> <<>>, children |-> <<>>],
     [kind |-> "end", named |-> FALSE, parent |-> 116, text |-> "end", start |-> <<36, 46>>, end |-> <<36, 49>>, f |-> <<>>, children |-> <<>>],
     [kind |-> ";", named |-> FALSE, parent |-> 115, text |-> ";", start |-> <<36, 49>>, end |-> <<36, 50>>, f |-> <<>>, children |-> <<>>],
     [kind |-> "end", named |-> FALSE, parent |-> 111, text |-> "end", start |-> <<36, 51>>, end |-> <<36, 54>>, f |-> <<>>, children |-> <<>>],
     [kind |-> "class", named |-> TRUE, parent |-> 1, text |-> "", start |-> <<37, 0>>, end |-> <<37, 83>>, f |-> [body |-> 146, name |-> 144], children |-> <<143, 144, 145, 146, 195>>],
     [kind |-> "class", named |-> FALSE, parent |-> 142, text |-> "class", start |-> <<37, 0>>, end |-> <<37, 5>>, f |-> <<>>, children |-> <<>>],
     [kind |-> "constant", named |-> TRUE, parent |-> 142, text |-> "V", start |-> <<37, 6>>, end |-> <<37, 7>>, f |-> <<>>, children |-> <<>>],
     [kind |-> ";", named |-> FALSE, parent |-> 142, text |-> ";", start |-> <<37, 7>>, end |-> <<37, 8>>, f |-> <<>>, children |-> <<>>],
     [kind |-> "body_statement", named |-> TRUE, parent |-> 142, text |-> "", start |-> <<37, 9>>, end |-> <<37, 79>>, f |-> <<>>, children |-> <<147, 171, 172, 194>>],
     [kind |-> "method", named |-> TRUE, parent |-> 146, text |-> "", start |-> <<37, 9>>, end |-> <<37, 44>>, f |-> [body |-> 155, name |-> 149, parameters |-> 150], children |-> <<148, 149, 150, 154, 155, 170>>],
     [kind |-> "def", named |-> FALSE, parent |-> 147, text |-> "def", start |-> <<37, 9>>, end |-> <<37, 12>>, f |-> <<>>, children |-> <<>>],
     [kind |-> "identifier", named |-> TRUE, parent |-> 147, text |-> "bar", start |-> <<37, 13>>, end |-> <<37, 16>>, f |-> <<>>, children |-> <<>>],
     [kind |-> "method_parameters", named |-> TRUE, parent |-> 147, text |-> "", start |-> <<37, 16>>, end |-> <<37, 19>>, f |-> <<>>, children |-> <<151, 152, 153>>],
     [kind |-> "(", named |-> FALSE, parent |-> 150, text |-> "(", start |-> <<37, 16>>, end |-> <<37, 17>>, f |-> <<>>, children |-> <<>>],
     [kind |-> "identifier", named |-> TRUE, parent |-> 150, text |-> "k", start |-> <<37, 17>>, end |-> <<37, 18>>, f |-> <<>>, children |-> <<>>],
     [kind |-> ")", named |-> FALSE, parent |-> 150, text |-> ")", start |-> <<37, 18>>, end |-> <<37, 19>>, f |-> <<>>, children |-> <<>>],
     [kind |-> ";", named |-> FALSE, parent |-> 147, text |-> ";", start |-> <<37, 19>>, end |-> <<37, 20>>, f |-> <<>>, children |-> <<>>],
     [kind |-> "body_statement", named |-> TRUE, parent |-> 147, text |-> "", start |-> <<37, 21>>, end |-> <<37, 40>>, f |-> <<>>, children |-> <<156, 160, 161, 162, 163, 167, 168, 169>>],
     [kind |-> "assignment", named |-> TRUE, parent |-> 155, text |-> "", start |-> <<37, 21>>, end |-> <<37, 26>>, f |-> [left |-> 157, right |-> 159], children |-> <<157, 158, 159>>],
     [kind |-> "identifier", named |-> TRUE, parent |-> 156, text |-> "k", start |-> <<37, 21>>, end |-> <<37, 22>>, f |-> <<>>, children |-> <<>>],
     [kind |-> "=", named |-> FALSE, parent |-> 156, text |-> "=", start |-> <<37, 23>>, end |-> <<37, 24>>, f |-> <<>>, children |-> <<>>],
     [kind |-> "integer", named |-> TRUE, parent |-> 156, text |-> "3", start |-> <<37, 25>>, end |-> <<37, 26>>, f |-> <<>>, children |-> <<>>],
     [kind |-> ";", named |-> FALSE, parent |-> 155, text |-> ";", start |-> <<37, 26>>, end |-> <<37, 27>>, f |-> <<>>, children |-> <<>>],
     [kind |-> "identifier", named |-> TRUE, parent |-> 155, text |-> "k", start |-> <<37, 28>>, end |-> <<37, 29>>, f |-> <<>>, children |-> <<>>],
     [kind |-> ";", named |-> FALSE, parent |-> 155, text |-> ";", start |-> <<37, 29>>, end |-> <<37, 30>>, f |-> <<>>, children |-> <<>>],
     [kind |-> "assignment", named |-> TRUE, parent |-> 155, text |-> "", start |-> <<37, 31>>, end |-> <<37, 36>>, f |-> [left |-> 164, right |-> 166], children |-> <<164, 165, 166>>],
     [kind |-> "identifier", named |-> TRUE, parent |-> 163, text |-> "k", start |-> <<37, 31>>, end |-> <<37, 32>>, f |-> <<>>, children |-> <<>>],
     [kind |-> "=", named |-> FALSE, parent |-> 163, text |-> "=", start |-> <<37, 33>>, end |-> <<37, 34>>, f |-> <<>>, children |-> <<>>],
     [kind |-> "integer", named |-> TRUE, parent |-> 163, text |-> "4", start |-> <<37, 35>>, end |-> <<37, 36>>, f |-> <<>>, children |-> <<>>],
     [kind |-> ";", named |-> FALSE, parent |-> 155, text |-> ";", start |-> <<37, 36>>, end |-> <<37, 37>>, f |-> <<>>, children |-> <<>>],
     [kind |-> "identifier", named |-> TRUE, parent |-> 155, text |-> "k", start |-> <<37, 38>>, end |-> <<37, 39>>, f |-> <<>>, children |-> <<>>],
     [kind |-> ";", named |-> FALSE, parent |-> 155, text |-> ";", start |-> <<37, 39>>, end |-> <<37, 40>>, f |-> <<>>, children |-> <<>>],
     [kind |-> "end", named |-> FALSE, parent |-> 147, text |-> "end", start |-> <<37, 41>>, end |-> <<37, 44>>, f |-> <<>>, children |-> <<>>],
     [kind |-> ";", named |-> FALSE, parent |-> 146, text |-> ";", start |-> <<37, 44>>, end |-> <<37, 45>>, f |-> <<>>, children |-> <<>>],
     [kind |-> "method", named |-> TRUE, parent |-> 146, text |-> "", start |-> <<37, 46>>, end |-> <<37, 78>>, f |-> [body |-> 180, name |-> 174, parameters |-> 175], children |-> <<173, 174, 175, 179, 180, 193>>],
     [kind |-> "def", named |-> FALSE, parent |-> 172, text |-> "def", start |-> <<37, 46>>, end |-> <<37, 49>>, f |-> <<>>, children |-> <<>>],
     [kind |-> "identifier", named |-> TRUE, parent |-> 172, text |-> "baz", start |-> <<37, 50>>, end |-> <<37, 53>>, f |-> <<>>, children |-> <<>>],
     [kind |-> "method_parameters", named |-> TRUE, parent |-> 172, text |-> "", start |-> <<37, 53>>, end |-> <<37, 56>>, f |-> <<>>, children |-> <<176, 177, 178>>],
     [kind |-> "(", named |-> FALSE, parent |-> 175, text |-> "(", start |-> <<37, 53>>, end |-> <<37, 54>>, f |-> <<>>, children |-> <<>>],
     [kind |-> "identifier", named |-> TRUE, parent |-> 175, text |-> "k", start |-> <<37, 54>>, end |-> <<37, 55>>, f |-> <<>>, children |-> <<>>],
     [kind |-> ")", named |-> FALSE, parent |-> 175, text |-> ")", start |-> <<37, 55>>, end |-> <<37, 56>>, f |-> <<>>, children |-> <<>>],
     [kind |-> ";", named |-> FALSE, parent |-> 172, text |-> ";", start |-> <<37, 56>>, end |-> <<37, 57>>, f |-> <<>>, children |-> <<>>],
     [kind |-> "body_statement", named |-> TRUE, parent |-> 172, text |-> "", start |-> <<37, 58>>, end |-> <<37, 74>>, f |-> <<>>, children |-> <<181, 185, 186, 190, 191, 192>>],
     [kind |-> "assignment", named |-> TRUE, parent |-> 180, text |-> "", start |-> <<37, 58>>, end |-> <<37, 63>>, f |-> [left |-> 182, right |-> 184], children |-> <<182, 183, 184>>],
     [kind |-> "identifier", named |-> TRUE, parent |-> 181, text |-> "x", start |-> <<37, 58>>, end |-> <<37, 59>>, f |-> <<>>, children |-> <<>>],
     [kind |-> "=", named |-> FALSE, parent |-> 181, text |-> "=", start |-> <<37, 60>>, end |-> <<37, 61>>, f |-> <<>>, children |-> <<>>],
     [kind |-> "integer", named |-> TRUE, parent |-> 181, text |-> "1", start |-> <<37, 62>>, end |-> <<37, 63>>, f |-> <<>>, children |-> <<>>],
     [kind |-> ";", named |-> FALSE, parent |-> 180, text |-> ";", start |-> <<37, 63>>, end |-> <<37, 64>>, f |-> <<>>, children |-> <<>>],
     [kind |-> "assignment", named |-> TRUE, parent |-> 180, text |-> "", start |-> <<37, 65>>, end |-> <<37, 70>>, f |-> [left |-> 187, right |-> 189], children |-> <<187, 188, 189>>],
     [kind |-> "identifier", named |-> TRUE, parent |-> 186, text |-> "k", start |-> <<37, 65>>, end |-> <<37, 66>>, f |-> <<>>, children |-> <<>>],
     [kind |-> "=", named |-> FALSE, parent |-> 186, text |-> "=", start |-> <<37, 67>>, end |-> <<37, 68>>, f |-> <<>>, children |-> <<>>],
     [kind |-> "integer", named |-> TRUE, parent |-> 186, text |-> "3", start |-> <<37, 69>>, end |-> <<37, 70>>, f |-> <<>>, children |-> <<>>],
     [kind |-> ";", named |-> FALSE, parent |-> 180, text |-> ";", start |-> <<37, 70>>, end |-> <<37, 71>>, f |-> <<>>, children |-> <<>>],
     [kind |-> "identifier", named |-> TRUE, parent |-> 180, text |-> "k", start |-> <<37, 72>>, end |-> <<37, 73>>, f |-> <<>>, children |-> <<>>],
     [kind |-> ";", named |-> FALSE, parent |-> 180, text |-> ";", start |-> <<37, 73>>, end |-> <<37, 74>>, f |-> <<>>, children |-> <<>>],
     [kind |-> "end", named |-> FALSE, parent |-> 172, text |-> "end", start |-> <<37, 75>>, end |-> <<37, 78>>, f |-> <<>>, children |-> <<>>],
     [kind |-> ";", named |-> FALSE, parent |-> 146, text |-> ";", start |-> <<37, 78>>, end |-> <<37, 79>>, f |-> <<>>, children |-> <<>>],
     [kind |-> "end", named |-> FALSE, parent |-> 142, text |-> "end", start |-> <<37, 80>>, end |-> <<37, 83>>, f |-> <<>>, children |-> <<>>],
     [kind |-> "scope_resolution", named |-> TRUE, parent |-> 1, text |-> "self::Foo", start |-> <<38, 0>>, end |-> <<38, 9>>, f |-> [name |-> 199, scope |-> 197], children |-> <<197, 198, 199>>],
     [kind |-> "self", named |-> TRUE, parent |-> 196, text |-> "self", start |-> <<38, 0>>, end |-> <<38, 4>>, f |-> <<>>, children |-> <<>>],
     [kind |-> "::", named |-> FALSE, parent |-> 196, text |-> "::", start |-> <<38, 4>>, end |-> <<38, 6>>, f |-> <<>>, children |-> <<>>],
     [kind |-> "constant", named |-> TRUE, parent |-> 196, text |-> "Foo", start |-> <<38, 6>>, end |-> <<38, 9>>, f |-> <<>>, children |-> <<>>] >>

(* TreeGem holds the tree of:
     D = 3
     Foo = 4
     module G
       class S
       end
     end
     module D
       D
       class ::G::S
         Foo
       end
     end
*)
TreeGem ==
  << [kind |-> "program", named |-> TRUE, parent |-> 0, text |-> "", start |-> <<0, 0>>, end |-> <<12, 0>>, f |-> <<>>, children |-> <<2, 6, 10, 19>>],
     [kind |-> "assignment", named |-> TRUE, parent |-> 1, text |-> "", start |-> <<0, 0>>, end |-> <<0, 5>>, f |-> [left |-> 3, right |-> 5], children |-> <<3, 4, 5>>],
     [kind |-> "constant", named |-> TRUE, parent |-> 2, text |-> "D", start |-> <<0, 0>>, end |-> <<0, 1>>, f |-> <<>>, children |-> <<>>],
     [kind |-> "=", named |-> FALSE, parent |-> 2, text |-> "=", start |-> <<0, 2>>, end |-> <<0, 3>>, f |-> <<>>, children |-> <<>>],
     [kind |-> "integer", named |-> TRUE, parent |-> 2, text |-> "3", start |-> <<0, 4>>, end |-> <<0, 5>>, f |-> <<>>, children |-> <<>>],
     [kind |-> "assignment", named |-> TRUE, parent |-> 1, text |-> "", start |-> <<1, 0>>, end |-> <<1, 7>>, f |-> [left |-> 7, right |-> 9], children |-> <<7, 8, 9>>],
     [kind |-> "constant", named |-> TRUE, parent |-> 6, text |-> "Foo", start |-> <<1, 0>>, end |-> <<1, 3>>, f |-> <<>>, children |-> <<>>],
     [kind |-> "=", named |-> FALSE, parent |-> 6, text |-> "=", start |-> <<1, 4>>, end |-> <<1, 5>>, f |-> <<>>, children |-> <<>>],
     [kind |-> "integer", named |-> TRUE, parent |-> 6, text |-> "4", start |-> <<1, 6>>, end |-> <<1, 7>>, f |-> <<>>, children |-> <<>>],
     [kind |-> "module", named |-> TRUE, parent |-> 1, text |-> "", start |-> <<2, 0>>, end |-> <<5, 3>>, f |-> [body |-> 13, name |-> 12], children |-> <<11, 12, 13, 18>>],
     [kind |-> "module", named |-> FALSE, parent |-> 10, text |-> "module", start |-> <<2, 0>>, end |-> <<2, 6>>, f |-> <<>>, children |-> <<>>],
     [kind |-> "constant", named |-> TRUE, parent |-> 10, text |-> "G", start |-> <<2, 7>>, end |-> <<2, 8>>, f |-> <<>>, children |-> <<>>],
     [kind |-> "body_statement", named |-> TRUE, parent |-> 10, text |-> "", start |-> <<3, 2>>, end |-> <<4, 5>>, f |-> <<>>, children |-> <<14>>],
     [kind |-> "class", named |-> TRUE, parent |-> 13, text |-> "", start |-> <<3, 2>>, end |-> <<4, 5>>, f |-> [name |-> 16], children |-> <<15, 16, 17>>],
     [kind |-> "class", named |-> FALSE, parent |-> 14, text |-> "class", start |-> <<3, 2>>, end |-> <<3, 7>>, f |-> <<>>, children |-> <<>>],
     [kind |-> "constant", named |-> TRUE, parent |-> 14, text |-> "S", start |-> <<3, 8>>, end |-> <<3, 9>>, f |-> <<>>, children |-> <<>>],
     [kind |-> "end", named |-> FALSE, parent |-> 14, text |-> "end", start |-> <<4, 2>>, end |-> <<4, 5>>, f |-> <<>>, children |-> <<>>],
     [kind |-> "end", named |-> FALSE, parent |-> 10, text |-> "end", start |-> <<5, 0>>, end |-> <<5, 3>>, f |-> <<>>, children |-> <<>>],
     [kind |-> "module", named |-> TRUE, parent |-> 1, text |-> "", start |-> <<6, 0>>, end |-> <<11, 3>>, f |-> [body |-> 22, name |-> 21], children |-> <<20, 21, 22, 35>>],
     [kind |-> "module", named |-> FALSE, parent |-> 19, text |-> "module", start |-> <<6, 0>>, end |-> <<6, 6>>, f |-> <<>>, children |-> <<>>],
     [kind |-> "constant", named |-> TRUE, parent |-> 19, text |-> "D", start |-> <<6, 7>>, end |-> <<6, 8>>, f |-> <<>>, children |-> <<>>],
     [kind |-> "body_statement", named |-> TRUE, parent |-> 19, text |-> "", start |-> <<7, 2>>, end |-> <<10, 5>>, f |-> <<>>, children |-> <<23, 24>>],
     [kind |-> "constant", named |-> TRUE, parent |-> 22, text |-> "D", start |-> <<7, 2>>, end |-> <<7, 3>>, f |-> <<>>, children |-> <<>>],
     [kind |-> "class", named |-> TRUE, parent |-> 22, text |-> "", start |-> <<8, 2>>, end |-> <<10, 5>>, f |-> [body |-> 32, name |-> 26], children |-> <<25, 26, 32, 34>>],
     [kind |-> "class", named |-> FALSE, parent |-> 24, text |-> "class", start |-> <<8, 2>>, end |-> <<8, 7>>, f |-> <<>>, children |-> <<>>],
     [kind |-> "scope_resolution", named |-> TRUE, parent |-> 24, text |-> "::G::S", start |-> <<8, 8>>, end |-> <<8, 14>>, f |-> [name |-> 31, scope |-> 27], children |-> <<27, 30, 31>>],
     [kind |-> "scope_resolution", named |-> TRUE, parent |-> 26, text |-> "::G", start |-> <<8, 8>>, end |-> <<8, 11>>, f |-> [name |-> 29], children |-> <<28, 29>>],
     [kind |-> "::", named |-> FALSE, parent |-> 27, text |-> "::", start |-> <<8, 8>>, end |-> <<8, 10>>, f |-> <<>>, children |-> <<>>],
     [kind |-> "constant", named |-> TRUE, parent |-> 27, text |-> "G", start |-> <<8, 10>>, end |-> <<8, 11>>, f |-> <<>>, children |-> <<>>],
     [kind |-> "::", named |-> FALSE, parent |-> 26, text |-> "::", start |-> <<8, 11>>, end |-> <<8, 13>>, f |-> <<>>, children |-> <<>>],
     [kind |-> "constant", named |-> TRUE, parent |-> 26, text |-> "S", start |-> <<8, 13>>, end |-> <<8, 14>>, f |-> <<>>, children |-> <<>>],
     [kind |-> "body_statement", named |-> TRUE, parent |-> 24, text |-> "", start |-> <<9, 4>>, end |-> <<9, 7>>, f |-> <<>>, children |-> <<33>>],
     [kind |-> "constant", named |-> TRUE, parent |-> 32, text |-> "Foo", start |-> <<9, 4>>, end |-> <<9, 7>>, f |-> <<>>, children |-> <<>>],
     [kind |-> "end", named |-> FALSE, parent |-> 24, text |-> "end", start |-> <<10, 2>>, end |-> <<10, 5>>, f |-> <<>>, children |-> <<>>],
     [kind |-> "end", named |-> FALSE, parent |-> 19, text |-> "end", start |-> <<11, 0>>, end |-> <<11, 3>>, f |-> <<>>, children |-> <<>>] >>


Files == { "abc", "m", "gem" }

(* What each file holds when the server starts. *)
FileTree(f) ==
    CASE f = "abc" -> TreeABC
      [] f = "m"   -> TreeM
      [] f = "gem" -> TreeGem

(* read_file_tree: the tree parsed from the file as it is on disk. *)
Tree(f) == disk[f]

Nodes(f) == 1 .. Len(Tree(f))

Kind(f, n) == Tree(f)[n].kind

Parent(f, n) == Tree(f)[n].parent

Text(f, n) == Tree(f)[n].text

Start(f, n) == Tree(f)[n].start

End(f, n) == Tree(f)[n].end

Children(f, n) == Tree(f)[n].children

(* Node::child_by_field_name: 0 stands for None. *)
ChildByFieldName(f, n, name) ==
    IF name \in DOMAIN Tree(f)[n].f THEN Tree(f)[n].f[name] ELSE 0

(* Node::range equality, as the scope functions use it. *)
SameRange(f, a, b) == Start(f, a) = Start(f, b) /\ End(f, a) = End(f, b)

(* Point's derived ordering: by row, then by column. *)
PointLT(a, b) == a[1] < b[1] \/ (a[1] = b[1] /\ a[2] < b[2])

Reverse(s) == [i \in 1 .. Len(s) |-> s[Len(s) + 1 - i]]

Has(s, x) == \E i \in 1 .. Len(s) : s[i] = x

-----------------------------------------------------------------------------
(* types.rs: Scope, a sequence of segments.                                 *)

is_global(scope) == Len(scope) > 0 /\ scope[1] = GLOBAL_SCOPE_VALUE

Join(self, rhs) == self \o (IF is_global(rhs) THEN Tail(rhs) ELSE rhs)

without_last(scope) ==
    IF Len(scope) = 0 THEN << >> ELSE SubSeq(scope, 1, Len(scope) - 1)

ScopeFromName(name) == << name >>

-----------------------------------------------------------------------------
(* parsers/scopes.rs.  A panic (an unwrap of None, a failed assert!, the    *)
(* panic! arm) is the value PanicScope, which every caller passes on.       *)

PanicMark == "$PANIC"

AbortMark == "$ABORT"

PanicScope == << PanicMark >>

Cat(a, b) == IF a = PanicScope \/ b = PanicScope THEN PanicScope ELSE a \o b

(* The node the two resolution functions start from: a scope_resolution is  *)
(* replaced by its name child.                                              *)
ResolutionNode(f, n) ==
    IF Kind(f, n) = "scope_resolution" THEN ChildByFieldName(f, n, "name") ELSE n

(* The asserts and unwraps both functions open with: TRUE when one fails.   *)
ResolutionPanics(f, n) ==
    LET node == ResolutionNode(f, n) IN
    \/ node = 0
    \/ Kind(f, node) # "constant"
    \/ Parent(f, node) = 0
    \/ /\ Kind(f, Parent(f, node)) = "scope_resolution"
       /\ LET parent     == Parent(f, node)
              scope_node == ChildByFieldName(f, parent, "scope")
              name_node  == ChildByFieldName(f, parent, "name")
          IN  \/ name_node = 0
              \/ ~ ( (scope_node # 0 /\ SameRange(f, scope_node, node))
                     \/ SameRange(f, name_node, node) )

IsScopeOfParent(f, node) ==
    LET scope_node == ChildByFieldName(f, Parent(f, node), "scope") IN
    scope_node # 0 /\ SameRange(f, scope_node, node)

(* The while loop of get_parent_scope_resolution: the segments to the left, *)
(* in the order it pushes them (right to left).                             *)
RECURSIVE LeftScopes(_, _)
LeftScopes(f, s) ==
    IF s = 0 THEN << >>
    ELSE IF Kind(f, s) = "scope_resolution" THEN
        LET name      == ChildByFieldName(f, s, "name")
            new_scope == ChildByFieldName(f, s, "scope")
        IN  IF name = 0 THEN << PanicMark >>
            ELSE << Text(f, name) >>
                 \o (IF new_scope = 0 THEN << GLOBAL_SCOPE_VALUE >> ELSE << >>)
                 \o LeftScopes(f, new_scope)
    ELSE IF Kind(f, s) = "constant" THEN << Text(f, s) >>
    ELSE IF Kind(f, s) \in { "class_variable", "instance_variable" } THEN << AbortMark >>
    ELSE << PanicMark >>

get_parent_scope_resolution(f, n) ==
    LET node == ResolutionNode(f, n) IN
    IF ResolutionPanics(f, n) THEN PanicScope
    ELSE IF Kind(f, Parent(f, node)) # "scope_resolution" THEN << Text(f, node) >>
    ELSE IF IsScopeOfParent(f, node) THEN << Text(f, node) >>
    ELSE LET p      == Parent(f, node)
             scopes == << Text(f, ChildByFieldName(f, p, "name")) >>
                       \o LeftScopes(f, ChildByFieldName(f, p, "scope"))
         IN  IF Has(scopes, PanicMark) THEN PanicScope
             ELSE IF Has(scopes, AbortMark) THEN << >>
             ELSE Reverse(scopes)

(* The while loop of get_child_scope_resolution: the names of the           *)
(* scope_resolution ancestors, innermost first.                             *)
RECURSIVE RightScopes(_, _)
RightScopes(f, p) ==
    IF p = 0 \/ Kind(f, p) # "scope_resolution" THEN << >>
    ELSE IF ChildByFieldName(f, p, "name") = 0 THEN << PanicMark >>
    ELSE << Text(f, ChildByFieldName(f, p, "name")) >> \o RightScopes(f, Parent(f, p))

get_child_scope_resolution(f, n) ==
    LET node == ResolutionNode(f, n) IN
    IF ResolutionPanics(f, n) THEN PanicScope
    ELSE IF Kind(f, Parent(f, node)) # "scope_resolution" THEN << Text(f, node) >>
    ELSE LET scopes == (IF IsScopeOfParent(f, node) THEN << Text(f, node) >> ELSE << >>)
                       \o RightScopes(f, Parent(f, node))
         IN  IF Has(scopes, PanicMark) THEN PanicScope ELSE scopes

get_full_scope_resolution(f, n) ==
    LET child_scopes  == get_child_scope_resolution(f, n)
        parent_scopes == get_parent_scope_resolution(f, n)
    IN  IF child_scopes = PanicScope THEN PanicScope
        ELSE Cat(parent_scopes,
                 IF Len(child_scopes) = 0 THEN << >> ELSE Tail(child_scopes))

(* get_context_scope, first loop: the ancestor the second loop starts at.   *)
RECURSIVE SkipOwnDeclaration(_, _)
(* The first loop left out: the second loop starts at the node's parent.    *)
SkipOwnDeclaration_Kept(f, p) == p

SkipOwnDeclaration(f, p) ==
    IF p = 0 THEN 0
    ELSE IF Kind(f, p) \notin NodeKind THEN p
    ELSE IF Kind(f, p) = "scope_resolution" THEN SkipOwnDeclaration(f, Parent(f, p))
    ELSE IF Kind(f, p) \in { "class", "module" } THEN Parent(f, p)
    ELSE p

(* get_context_scope, second loop and the final rev().flatten(): the full   *)
(* names of every class/module from p upwards, outermost first.             *)
RECURSIVE EnclosingScopes(_, _)
EnclosingScopes(f, p) ==
    IF p = 0 THEN << >>
    ELSE IF Kind(f, p) \in { "class", "module" } THEN
        IF ChildByFieldName(f, p, "name") = 0 THEN PanicScope
        ELSE Cat(EnclosingScopes(f, Parent(f, p)),
                 get_full_scope_resolution(f, ChildByFieldName(f, p, "name")))
    ELSE EnclosingScopes(f, Parent(f, p))

get_context_scope(f, n) == EnclosingScopes(f, SkipOwnDeclaration(f, Parent(f, n)))

get_full_and_context_scope(f, n) ==
    LET full_scope == get_full_scope_resolution(f, n) IN
    IF full_scope = PanicScope THEN PanicScope
    ELSE IF Len(full_scope) > 0 /\ full_scope[1] = GLOBAL_SCOPE_VALUE THEN full_scope
    ELSE Cat(get_context_scope(f, n), full_scope)

-----------------------------------------------------------------------------
(* The indexed directories and the files a recursive walk of each reaches.  *)
(* The gems directory is a fixed path under the home directory; the project *)
(* root is whatever the client opened, possibly a gem inside that           *)
(* directory, in which case the walk of the gems directory reaches the      *)
(* project's files as well.                                                 *)

GemsDir == << "home", "gems" >>

RootDir == IF root_in_gems THEN << "home", "gems", "proj" >> ELSE << "home", "proj" >>

(* A file of the project whose content cannot be read.                      *)
LockedFile == "locked"

RootFiles == { "abc", "m", LockedFile }

RelativePath(f) ==
    CASE f = "abc" -> << "app", "models", "a", "b", "c.rb" >>
      [] f = "m"   -> << "lib", "m.rb" >>
      [] f = "gem" -> << "d.rb" >>
      [] f = LockedFile -> << "lib", "locked.rb" >>

PathOf(f) == (IF f \in RootFiles THEN RootDir ELSE GemsDir) \o RelativePath(f)

StartsWith(path, prefix) ==
    Len(prefix) <= Len(path) /\ SubSeq(path, 1, Len(prefix)) = prefix

(* WalkDir::new(dir), filtered to *.rb files.  The stubs path is hard-coded *)
(* to another machine's directory: the walk yields only errors, which are   *)
(* filtered out.                                                            *)
Entries == DOMAIN disk \cup (IF locked /\ root_exists THEN { LockedFile } ELSE { })

DirFiles(dir) ==
    CASE dir = "stubs" -> { }
      [] dir = "gems"  -> { f \in Entries : StartsWith(PathOf(f), GemsDir) }
      [] dir = "root"  -> { f \in Entries : StartsWith(PathOf(f), RootDir) }

(* [stubs_dir, gems_dir, Some(root_dir)].flatten(): the first two are None  *)
(* when the root has no .ruby-version file.                                 *)
IndexedDirs == IF ruby_version THEN << "stubs", "gems", "root" >> ELSE << "root" >>

-----------------------------------------------------------------------------
(* types.rs: RSymbolV2.  parent is << >> for None and << symbol >> for      *)
(* Some(symbol); parameters and superclass_scope are the payload of kind;   *)
(* node is the syntax node the symbol was built from, 0 when it has none.   *)

RSymbolV2(kind, name, scope, file, node, start, end, parent, parameters, superclass_scope) ==
    [ kind |-> kind, name |-> name, scope |-> scope, file |-> file, node |-> node,
      start |-> start, end |-> end, parent |-> parent,
      parameters |-> parameters, superclass_scope |-> superclass_scope ]

RMethodParamV2(kind, file, name, start, end) ==
    [ kind |-> kind, file |-> file, name |-> name, start |-> start, end |-> end ]

is_classlike(kind) == kind \in { "Class", "Module" }

(* What a panicking parser leaves in place of its symbols.                  *)
PanicSymbol ==
    RSymbolV2("panic", "", PanicScope, "", 0, << 0, 0 >>, << 0, 0 >>, << >>, << >>, << >>)

-----------------------------------------------------------------------------
(* parsers_v2: from syntax tree to symbols.                                 *)

parse_constant(f, n, parent) ==
    IF Kind(f, n) \notin { "constant", "rest_assignment" } THEN << >>
    ELSE LET constants == SelectSeq(Children(f, n), LAMBDA c : Kind(f, c) = "constant")
             node == IF Kind(f, n) = "rest_assignment"
                     THEN (IF Len(constants) = 0 THEN 0 ELSE constants[1])
                     ELSE n
             parent_scope == IF parent = << >> THEN << >>
                             ELSE Join(parent[1].scope, ScopeFromName(parent[1].name))
         IN  IF node = 0 THEN << PanicSymbol >>
             ELSE << RSymbolV2("Constant", Text(f, node), parent_scope, f, node,
                               Start(f, node), End(f, node), parent, << >>, << >>) >>

get_method_param_nodes(f, method_node) ==
    LET method_parameters == ChildByFieldName(f, method_node, "parameters") IN
    IF method_parameters = 0 THEN << >>
    ELSE SelectSeq(Children(f, method_parameters),
                   LAMBDA p : Kind(f, p) \in { "identifier", "optional_parameter",
                                               "keyword_parameter" })

MethodParam(f, param) ==
    IF Kind(f, param) = "identifier"
    THEN RMethodParamV2("Regular", f, Text(f, param), Start(f, param), End(f, param))
    ELSE LET name_node == ChildByFieldName(f, param, "name") IN
         RMethodParamV2(IF Kind(f, param) = "optional_parameter" THEN "Optional" ELSE "Keyword",
                        f, Text(f, name_node), Start(f, name_node), End(f, name_node))

parse_method(f, n, parent) ==
    LET parent_scope == IF parent # << >> /\ is_classlike(parent[1].kind)
                        THEN Join(parent[1].scope, ScopeFromName(parent[1].name))
                        ELSE << >>
        name_node    == ChildByFieldName(f, n, "name")
        param_nodes  == get_method_param_nodes(f, n)
        params       == [i \in 1 .. Len(param_nodes) |-> MethodParam(f, param_nodes[i])]
    IN  IF name_node = 0 THEN PanicSymbol
        ELSE RSymbolV2("InstanceMethod", Text(f, name_node), parent_scope, f, n,
                       Start(f, name_node), End(f, n), parent, params, << >>)

parse_singleton_method(f, n, parent) ==
    LET instance_method_symbol == parse_method(f, n, parent) IN
    IF instance_method_symbol = PanicSymbol THEN PanicSymbol
    ELSE [instance_method_symbol EXCEPT !.kind = "SingletonMethod"]

parse_assignment(f, n, parent) ==
    LET lhs == ChildByFieldName(f, n, "left") IN
    IF lhs = 0 THEN << PanicSymbol >>
    ELSE IF Kind(f, lhs) = "constant" THEN parse_constant(f, lhs, parent)
    ELSE IF Kind(f, lhs) = "left_assignment_list" THEN
        LET named == SelectSeq(Children(f, lhs),
                               LAMBDA c : /\ Tree(f)[c].named
                                          /\ Kind(f, c) \in { "constant", "rest_assignment" })
            Each[i \in 0 .. Len(named)] ==
                IF i = 0 THEN << >> ELSE Each[i - 1] \o parse_constant(f, named[i], parent)
        IN  Each[Len(named)]
    ELSE IF Kind(f, lhs) = "global_variable" THEN
        << RSymbolV2("GlobalVariable", Text(f, lhs), ScopeFromName(Text(f, lhs)), f, n,
                     Start(f, n), End(f, n), parent, << >>, << >>) >>
    ELSE << >>

DeclarativeCalls ==
    { "attr_accessor", "attr_reader", "attr_writer", "delegate",
      "belongs_to", "has_one", "has_many" }

(* var_name.replace(':', "") on the texts the trees contain.                *)
StripColons(text) ==
    CASE text = ":name" -> "name"
      [] OTHER -> text

parse_call(f, n, parent) ==
    LET method == ChildByFieldName(f, n, "method")
        args   == ChildByFieldName(f, n, "arguments")
    IN  IF method = 0 THEN << PanicSymbol >>
        ELSE IF args = 0 THEN << >>
        ELSE IF Text(f, method) \in DeclarativeCalls THEN
            IF Len(Children(f, args)) = 0 THEN << PanicSymbol >>
            ELSE LET first_child == Children(f, args)[1]
                     scope == IF parent = << >> THEN << >>
                              ELSE Join(parent[1].scope, ScopeFromName(parent[1].name))
                 IN  << RSymbolV2("InstanceVariable", StripColons(Text(f, first_child)), scope, f,
                                  first_child, Start(f, first_child), End(f, first_child), parent,
                                  << >>, << >>) >>
        ELSE << >>

RECURSIVE parse(_, _, _), parse_class(_, _, _), ParseEach(_, _, _)

(* The loop of parse_class and of index_file_cursor: parse every node of a  *)
(* sibling list with the same parent symbol and append the results.         *)
ParseEach(f, nodes, parent) ==
    IF Len(nodes) = 0 THEN << >>
    ELSE parse(f, Head(nodes), parent) \o ParseEach(f, Tail(nodes), parent)

(* parse_class with the class symbol pushed before the symbols of its body. *)
parse_class_SymbolFirst(f, n, parent) ==
    LET name_node == ChildByFieldName(f, n, "name")
        body_node == ChildByFieldName(f, n, "body")
    IN  IF name_node = 0 THEN << PanicSymbol >>
        ELSE LET scope  == get_full_and_context_scope(f, name_node)
                 symbol == RSymbolV2(IF Kind(f, n) = "class" THEN "Class" ELSE "Module",
                                     Text(f, name_node), scope, f, n,
                                     Start(f, name_node), End(f, n), parent,
                                     << >>, << >>)
             IN  IF scope = PanicScope THEN << PanicSymbol >>
                 ELSE << symbol >>
                      \o (IF body_node = 0 THEN << >>
                          ELSE ParseEach(f, Children(f, body_node), << symbol >>))

parse_class(f, n, parent) ==
    LET name_node  == ChildByFieldName(f, n, "name")
        superclass == ChildByFieldName(f, n, "superclass")
        super_name == IF superclass = 0 THEN 0 ELSE ChildByFieldName(f, superclass, "name")
        superclass_scope == IF super_name = 0 THEN << >>
                            ELSE get_full_and_context_scope(f, super_name)
        body_node  == ChildByFieldName(f, n, "body")
    IN  IF name_node = 0 THEN << PanicSymbol >>
        ELSE LET scope  == get_full_and_context_scope(f, name_node)
                 symbol == RSymbolV2(IF Kind(f, n) = "class" THEN "Class" ELSE "Module",
                                     Text(f, name_node), scope, f, n,
                                     Start(f, name_node), End(f, n), parent,
                                     << >>, superclass_scope)
             IN  IF scope = PanicScope \/ superclass_scope = PanicScope THEN << PanicSymbol >>
                 ELSE (IF body_node = 0 THEN << >>
                       ELSE ParseEach(f, Children(f, body_node), << symbol >>))
                      \o << symbol >>

parse(f, n, parent) ==
    IF Kind(f, n) \notin NodeKind THEN << >>
    ELSE IF Kind(f, n) = "program" THEN << >>
    ELSE IF Kind(f, n) \in { "class", "module" } THEN parse_class(f, n, parent)
    ELSE IF Kind(f, n) = "method" THEN << parse_method(f, n, parent) >>
    ELSE IF Kind(f, n) = "singleton_method" THEN << parse_singleton_method(f, n, parent) >>
    ELSE IF Kind(f, n) = "assignment" THEN parse_assignment(f, n, parent)
    ELSE IF Kind(f, n) = "call" THEN parse_call(f, n, parent)
    ELSE << >>

(* IndexingContext::new: fs::read of the file succeeds.                     *)
IndexingContextNew(f) == f \in DOMAIN disk

(* index_file_cursor made to skip the file when the directory's list        *)
(* already holds symbols of another file.                                   *)
index_file_cursor_SharedList(f) ==
    IF Len(dir_symbols) > 0 THEN << >> ELSE ParseEach(f, Children(f, 1), << >>)

(* indexer.rs: the cursor walk over the children of the program node.       *)
index_file_cursor(f) == ParseEach(f, Children(f, 1), << >>)

-----------------------------------------------------------------------------
(* ruby_filename_converter.rs.  A path is its sequence of components.       *)

(* The prefixes the converter was constructed with: the lines the project's *)
(* autoload query printed, split at '\n' (the output ends with a newline,   *)
(* which leaves a last empty line), followed by RAILS_ROOT_PATHS.           *)
AutoloadPaths == << << "app", "models" >>, << >>, << "db" >>, << "spec" >> >>

(* Path::with_extension("") on the last component.                          *)
WithoutExtension(name) ==
    CASE name = "c.rb" -> "c"
      [] name = "m.rb" -> "m"
      [] name = "d.rb" -> "d"
      [] OTHER -> name

(* name.split('_').map(capitalize).join("") on the components that occur.  *)
name_to_scope(name) ==
    CASE name = "app"    -> "App"
      [] name = "models" -> "Models"
      [] name = "lib"    -> "Lib"
      [] name = "a"      -> "A"
      [] name = "b"      -> "B"
      [] name = "c"      -> "C"
      [] name = "d"      -> "D"
      [] name = "m"      -> "M"

(* Result<Vec<String>>: << >> is Err, << scope >> is Ok(scope).             *)
path_to_scope(path) ==
    IF ~ StartsWith(path, RootDir) THEN << >>
    ELSE LET stripped   == SubSeq(path, Len(RootDir) + 1, Len(path))
             local_path == [i \in 1 .. Len(stripped) |->
                               IF i = Len(stripped) THEN WithoutExtension(stripped[i])
                               ELSE stripped[i]]
             matching   == SelectSeq(AutoloadPaths, LAMBDA p : StartsWith(local_path, p))
             relative   == IF Len(matching) = 0 THEN local_path
                           ELSE SubSeq(local_path, Len(matching[1]) + 1, Len(local_path))
         IN  << [i \in 1 .. Len(relative) |-> name_to_scope(relative[i])] >>

-----------------------------------------------------------------------------
(* Iterator::sorted_by_key: a stable sort.  Less is the strict order of the *)
(* keys.                                                                    *)
StableSort(s, Less(_, _)) ==
    LET n == Len(s)
        pos(i) == 1 + Cardinality({ j \in 1 .. n :
                                      \/ Less(s[j], s[i])
                                      \/ (j < i /\ ~ Less(s[i], s[j])) })
    IN  [p \in 1 .. n |-> s[CHOOSE i \in 1 .. n : pos(i) = p]]

(* usize subtraction a - b.  With overflow checks a negative difference     *)
(* panics; without them it wraps to a value above every difference that did *)
(* not wrap, and wrapped values keep the order of the differences.          *)
WrappedLess(a, b) == IF (a < 0) = (b < 0) THEN a < b ELSE b < 0

-----------------------------------------------------------------------------
(* finder.rs                                                                *)

find_by_path(path) == SelectSeq(symbols, LAMBDA s : s.file = path)

(* Node::descendant_for_point_range(position, position): descend while a    *)
(* child's range holds the position, starting from (and falling back to)    *)
(* the root.                                                                *)
RECURSIVE Descendant(_, _, _)
Descendant(f, n, position) ==
    LET holding == SelectSeq(Children(f, n),
                             LAMBDA c : /\ ~ PointLT(position, Start(f, c))
                                        /\ PointLT(position, End(f, c)))
    IN  IF Len(holding) = 0 THEN n ELSE Descendant(f, holding[1], position)

descendant_for_point_range(f, position) == Descendant(f, 1, position)

Qualified(s) == Join(s.scope, ScopeFromName(s.name))

(* FirstPhaseMatch with the literal match no longer tied to the queried file. *)
FirstPhaseMatch_AnyFile(s, context_scope, file_scope, constant_scope, file) ==
    \/ Qualified(s) = context_scope
    \/ Qualified(s) = file_scope
    \/ Qualified(s) = constant_scope

(* The filter of the first search of find_constant.                         *)
FirstPhaseMatch(s, context_scope, file_scope, constant_scope, file) ==
    \/ Qualified(s) = context_scope
    \/ Qualified(s) = file_scope
    \/ (Qualified(s) = constant_scope /\ s.file = file)

find_constant(file, node) ==
    LET constant_scope == get_parent_scope_resolution(file, node)
        context        == get_context_scope(file, node)
    IN  IF constant_scope = PanicScope \/ context = PanicScope THEN << PanicSymbol >>
        ELSE
        LET context_scope == Join(context, constant_scope)
            converted     == path_to_scope(PathOf(file))
            file_scope    == Join(without_last(IF converted = << >> THEN << >> ELSE converted[1]),
                                  constant_scope)
            candidates    == SelectSeq(symbols,
                                 LAMBDA s : is_classlike(s.kind) \/ s.kind = "Constant")
            found_symbols == SelectSeq(candidates,
                                 LAMBDA s : FirstPhaseMatch(s, context_scope, file_scope,
                                                            constant_scope, file))
        IN  IF is_global(constant_scope)
            THEN SelectSeq(candidates, LAMBDA s : s.scope = constant_scope)
            ELSE IF Len(found_symbols) = 0
                 THEN SelectSeq(candidates, LAMBDA s : Qualified(s) = constant_scope)
                 ELSE found_symbols

find_global_variable(file, node) ==
    SelectSeq(symbols, LAMBDA s : s.kind = "GlobalVariable" /\ s.name = Text(file, node))

find_method_in_scope(method_name, scope, singleton) ==
    SelectSeq(symbols,
              LAMBDA s : /\ s.scope = scope
                         /\ s.kind = (IF singleton THEN "SingletonMethod" ELSE "InstanceMethod")
                         /\ s.name = method_name)

(* determine_context: the symbols of the file whose range strictly holds    *)
(* the node, before sorting.                                                *)
ScopeSymbols(file, node) ==
    SelectSeq(symbols, LAMBDA s : /\ s.file = file
                                  /\ PointLT(s.start, Start(file, node))
                                  /\ PointLT(End(file, node), s.end))

RangeUnderflows(s) == s.end[1] < s.start[1] \/ s.end[2] < s.start[2]

(* The sort key [end.row - start.row, end.column - start.column], compared  *)
(* as arrays are: first component first.                                    *)
RangeKeyLess(a, b) ==
    LET ar == a.end[1] - a.start[1]
        br == b.end[1] - b.start[1]
        ac == a.end[2] - a.start[2]
        bc == b.end[2] - b.start[2]
    IN  WrappedLess(ar, br) \/ (ar = br /\ WrappedLess(ac, bc))

(* << >> is None, << symbol >> is Some(symbol).  The key is computed only   *)
(* when the sort has two elements to compare.                               *)
determine_context(file, node) ==
    LET scope_symbols == ScopeSymbols(file, node) IN
    IF Len(scope_symbols) = 0 THEN << >>
    ELSE IF /\ overflow_checks
            /\ Len(scope_symbols) > 1
            /\ \E i \in 1 .. Len(scope_symbols) : RangeUnderflows(scope_symbols[i])
         THEN << PanicSymbol >>
    ELSE << StableSort(scope_symbols, RangeKeyLess)[1] >>

(* parsers_v2/identifiers.rs.  The query's predicate is written #eq, which  *)
(* is not one of the text predicates the query cursor evaluates (#eq? is),  *)
(* so every assignment with an identifier on the left and some right side   *)
(* matches.  0 is None.                                                     *)
RECURSIVE Subtree(_, _)
Subtree(f, n) ==
    LET kids == Children(f, n)
        Rest[i \in 0 .. Len(kids)] ==
            IF i = 0 THEN << >> ELSE Rest[i - 1] \o Subtree(f, kids[i])
    IN  << n >> \o Rest[Len(kids)]

QueryCaptures(f, context_node) ==
    LET matched == SelectSeq(Subtree(f, context_node),
                       LAMBDA a : /\ Kind(f, a) = "assignment"
                                  /\ ChildByFieldName(f, a, "left") # 0
                                  /\ Kind(f, ChildByFieldName(f, a, "left")) = "identifier"
                                  /\ ChildByFieldName(f, a, "right") # 0
                                  /\ Tree(f)[ChildByFieldName(f, a, "right")].named)
    IN  [i \in 1 .. Len(matched) |-> ChildByFieldName(f, matched[i], "left")]

find_first_assignment_with_lhs_text_with_query(f, identifier_node, context_node) ==
    LET before == SelectSeq(QueryCaptures(f, context_node),
                      LAMBDA n : PointLT(Start(f, n), Start(f, identifier_node)))
        sorted == StableSort(before, LAMBDA a, b : PointLT(Start(f, a), Start(f, b)))
    IN  IF Len(sorted) = 0 THEN 0 ELSE sorted[1]

(* find_identifier, step 3: the identifier is a child of a call node.       *)
FindCalled(file, node, scope_symbol) ==
    LET identifier_text == Text(file, node)
        call     == Parent(file, node)
        method   == ChildByFieldName(file, call, "method")
        receiver == ChildByFieldName(file, call, "receiver")
        is_singleton_context == scope_symbol.kind = "SingletonMethod"
    IN  IF method = 0 THEN << PanicSymbol >>
        ELSE IF receiver = 0
            THEN find_method_in_scope(identifier_text, scope_symbol.scope, is_singleton_context)
        ELSE IF Kind(file, receiver) \notin NodeKind THEN << >>
        ELSE IF Kind(file, receiver) = "self"
            THEN find_method_in_scope(identifier_text, scope_symbol.scope, is_singleton_context)
        ELSE IF Kind(file, receiver) \in { "constant", "scope_resolution" } THEN
            LET constant_scope == get_full_scope_resolution(file, receiver) IN
            IF constant_scope = PanicScope THEN << PanicSymbol >>
            ELSE find_method_in_scope(identifier_text, constant_scope, is_singleton_context)
        ELSE StableSort(
                 SelectSeq(symbols,
                     LAMBDA s : /\ s.name = identifier_text
                                /\ s.kind = (IF is_singleton_context THEN "SingletonMethod"
                                             ELSE "InstanceMethod")),
                 LAMBDA a, b : StartsWith(PathOf(a.file), RootDir)
                               /\ ~ StartsWith(PathOf(b.file), RootDir))

(* find_identifier, the arm of a method scope symbol.                       *)
FindInMethod(file, node, scope_symbol) ==
    LET identifier_text      == Text(file, node)
        assignment_left_node ==
            find_first_assignment_with_lhs_text_with_query(file, node, scope_symbol.node)
        named_params == SelectSeq(scope_symbol.parameters, LAMBDA p : p.name = identifier_text)
        variables    == SelectSeq(symbols,
                            LAMBDA s : /\ s.kind \in { "InstanceVariable", "InstanceMethod" }
                                       /\ s.scope = scope_symbol.scope
                                       /\ s.name = identifier_text)
        class_variables == SelectSeq(symbols,
                            LAMBDA s : /\ s.kind \in { "ClassVariable", "SingletonMethod" }
                                       /\ s.name = identifier_text)
    IN  IF assignment_left_node # 0 THEN
            << RSymbolV2("Variable", identifier_text, scope_symbol.scope, file, 0,
                         Start(file, assignment_left_node), End(file, assignment_left_node),
                         << scope_symbol >>, << >>, << >>) >>
        ELSE IF Len(named_params) > 0 THEN
            << RSymbolV2("Variable", identifier_text, scope_symbol.scope, file, 0,
                         named_params[1].start, named_params[1].end,
                         << scope_symbol >>, << >>, << >>) >>
        ELSE IF Parent(file, node) # 0 /\ Kind(file, Parent(file, node)) = "call"
            THEN FindCalled(file, node, scope_symbol)
        ELSE IF Len(variables) > 0 THEN variables
        ELSE class_variables

find_identifier(file, node) ==
    LET scope_symbol == determine_context(file, node) IN
    IF scope_symbol = << >> THEN << >>
    ELSE IF scope_symbol = << PanicSymbol >> THEN << PanicSymbol >>
    ELSE IF scope_symbol[1].kind \in { "Class", "Module" } THEN << PanicSymbol >>
    ELSE IF scope_symbol[1].kind \in { "SingletonMethod", "InstanceMethod" }
        THEN FindInMethod(file, node, scope_symbol[1])
    ELSE << >>

(* The files a request can name: the indexed ones and one that cannot be    *)
(* read.                                                                    *)
UnreadableFile == "gone"

Response(outcome_, result_, node_) ==
    [ outcome |-> outcome_, result |-> result_, node |-> node_ ]

OkOrPanic(found, node) ==
    IF found = << PanicSymbol >> THEN Response("panic", << >>, node)
    ELSE Response("ok", found, node)

find_definition(file, position) ==
    IF file \notin DOMAIN disk THEN Response("err", << >>, 0)
    ELSE LET node == descendant_for_point_range(file, position) IN
         IF Kind(file, node) \notin NodeKind THEN Response("err", << >>, node)
         ELSE IF Kind(file, node) = "constant" THEN OkOrPanic(find_constant(file, node), node)
         ELSE IF Kind(file, node) = "global_variable"
             THEN OkOrPanic(find_global_variable(file, node), node)
         ELSE IF Kind(file, node) = "identifier" THEN OkOrPanic(find_identifier(file, node), node)
         ELSE Response("err", << >>, node)
-----------------------------------------------------------------------------
(* symbols_matcher.rs and Finder::fuzzy_find_symbol.                        *)

(* str::chars of the names the three files declare, and of the queries.     *)
Chars(str) ==
    CASE str = ""             -> << >>
      [] str = "A"            -> << "A" >>
      [] str = "B"            -> << "B" >>
      [] str = "C"            -> << "C" >>
      [] str = "D"            -> << "D" >>
      [] str = "G"            -> << "G" >>
      [] str = "K"            -> << "K" >>
      [] str = "M"            -> << "M" >>
      [] str = "P"            -> << "P" >>
      [] str = "S"            -> << "S" >>
      [] str = "V"            -> << "V" >>
      [] str = "W"            -> << "W" >>
      [] str = "q"            -> << "q" >>
      [] str = "r"            -> << "r" >>
      [] str = "s"            -> << "s" >>
      [] str = "fo"           -> << "f", "o" >>
      [] str = "zz"           -> << "z", "z" >>
      [] str = "$g"           -> << "$", "g" >>
      [] str = "$h"           -> << "$", "h" >>
      [] str = "Foo"          -> << "F", "o", "o" >>
      [] str = "foo"          -> << "f", "o", "o" >>
      [] str = "bar"          -> << "b", "a", "r" >>
      [] str = "baz"          -> << "b", "a", "z" >>
      [] str = "A::B"         -> << "A", ":", ":", "B" >>
      [] str = "::G::S"       -> << ":", ":", "G", ":", ":", "S" >>
      [] str = "Outer::Inner" -> << "O", "u", "t", "e", "r", ":", ":", "I", "n", "n", "e", "r" >>

(* char::to_ascii_lowercase on the characters that occur.                   *)
Lower(c) ==
    CASE c = "A" -> "a" [] c = "B" -> "b" [] c = "C" -> "c" [] c = "D" -> "d"
      [] c = "F" -> "f" [] c = "G" -> "g" [] c = "I" -> "i" [] c = "K" -> "k"
      [] c = "M" -> "m" [] c = "O" -> "o" [] c = "P" -> "p" [] c = "S" -> "s" [] c = "V" -> "v"
      [] c = "W" -> "w" [] OTHER -> c

(* SkimMatcherV2::default().smart_case(): case matters only when the        *)
(* pattern holds an upper-case character.                                   *)
CaseSensitive(pattern) == \E i \in 1 .. Len(pattern) : Lower(pattern[i]) # pattern[i]

CharMatches(c, p, sensitive) == IF sensitive THEN c = p ELSE Lower(c) = Lower(p)

(* The index vectors fuzzy_indices can answer with: the strictly increasing *)
(* 0-based positions of choice at which the pattern's characters occur.     *)
Embeddings(choice, pattern) ==
    { ix \in [1 .. Len(pattern) -> 0 .. Len(choice) - 1] :
        /\ \A i \in 1 .. Len(pattern) :
              CharMatches(choice[ix[i] + 1], pattern[i], CaseSensitive(pattern))
        /\ \A i \in 1 .. Len(pattern) - 1 : ix[i] < ix[i + 1] }

(* The scores the scoring of the fuzzy-matcher crate is let to give a       *)
(* non-empty pattern; the crate is not part of the repository.              *)
SkimScores == { 16, 23 }

(* FuzzyMatcher::fuzzy_indices for a fixed pattern, as a function of the    *)
(* choice: a choice outside the domain is answered None; the empty pattern  *)
(* is answered Some((0, vec![])) for every choice.                          *)
SkimAnswers(names, query) ==
    IF query = ""
    THEN { [n \in names |-> [score |-> 0, indices |-> << >>]] }
    ELSE LET matched == { n \in names : Embeddings(Chars(n), Chars(query)) # { } }
         IN  { skim \in [matched -> [score : SkimScores,
                                     indices : UNION { Embeddings(Chars(n), Chars(query)) :
                                                       n \in matched }]] :
                 \A n \in matched : skim[n].indices \in Embeddings(Chars(n), Chars(query)) }

(* in_root of match_symbols.                                                *)
in_root_Negated(s) == IF StartsWith(PathOf(s.file), RootDir) THEN -1 ELSE 1

in_root(s) == IF StartsWith(PathOf(s.file), RootDir) THEN 1 ELSE -1

(* The rank [score, in_root, -start, -end, -len] of a matched symbol.       *)
rank(s, skim) ==
    LET indices == skim[s.name].indices
        start   == IF Len(indices) = 0 THEN 0 ELSE indices[1]
        end     == IF Len(indices) = 0 THEN 0 ELSE indices[Len(indices)]
    IN  << skim[s.name].score, in_root(s), - start, - end, - Len(Chars(s.name)) >>

(* [i32; 5]'s ordering: lexicographic.                                      *)
RECURSIVE ArrayLess(_, _)
ArrayLess(a, b) ==
    IF Len(a) = 0 THEN FALSE
    ELSE IF Head(a) # Head(b) THEN Head(a) < Head(b)
    ELSE ArrayLess(Tail(a), Tail(b))

(* match_symbols: filter_map on the matcher's answer, then                  *)
(* sort_by_key(Reverse(rank)), a stable sort.                               *)
match_symbols(skim, syms) ==
    LET scores == SelectSeq(syms, LAMBDA s : s.name \in DOMAIN skim)
        ReverseLess(a, b) == ArrayLess(rank(b, skim), rank(a, skim))
    IN  StableSort(scores, ReverseLess)

(* Finder::fuzzy_find_symbol; matcher tells whether the matcher was built   *)
(* and asked.                                                               *)
fuzzy_find_symbol_Unguarded(query, skim) ==
    [ result |-> match_symbols(skim, symbols), matcher |-> TRUE ]

fuzzy_find_symbol(query, skim) ==
    IF query = "" THEN [ result |-> << >>, matcher |-> FALSE ]
    ELSE [ result |-> match_symbols(skim, symbols), matcher |-> TRUE ]


-----------------------------------------------------------------------------
(* indexer.rs: the file index.                                              *)

(* Itertools::group_by: one group per maximal run of consecutive symbols of *)
(* the same file, as << file, symbols >> pairs in list order.               *)
group_by(syms) ==
    LET starts == SelectSeq([i \in 1 .. Len(syms) |-> i],
                            LAMBDA i : i = 1 \/ syms[i - 1].file # syms[i].file)
        RunEnd(k) == IF k = Len(starts) THEN Len(syms) ELSE starts[k + 1] - 1
    IN  [k \in 1 .. Len(starts) |->
            << syms[starts[k]].file, SubSeq(syms, starts[k], RunEnd(k)) >>]

(* Collecting the pairs into a HashMap: a later pair replaces an earlier    *)
(* one with the same key.                                                   *)
CollectMap(pairs) ==
    LET keys == { pairs[k][1] : k \in 1 .. Len(pairs) }
        Last(key) == CHOOSE k \in 1 .. Len(pairs) :
                        /\ pairs[k][1] = key
                        /\ \A m \in 1 .. Len(pairs) : pairs[m][1] = key => m <= k
    IN  [key \in keys |-> pairs[Last(key)][2]]

(* build_file_index leaving a map that is already there in place.           *)
build_file_index_Kept(syms) ==
    IF DOMAIN file_index # { } THEN file_index ELSE CollectMap(group_by(syms))

build_file_index(syms) == CollectMap(group_by(syms))

(* << >> is None, << symbols >> is Some(symbols).                           *)
file_symbols(file) ==
    IF file \in DOMAIN file_index THEN << file_index[file] >> ELSE << >>

-----------------------------------------------------------------------------
(* The server: Server::new indexes, then requests are served one at a time. *)

NoRequest == [ method |-> "none" ]

Positions(f) == { Start(f, n) : n \in Nodes(f) } \cup { End(f, n) : n \in Nodes(f) }

(* progress_reporter.rs.  The i32 counter is far from its range.             *)
Notification(kind, token) == [ kind |-> kind, token |-> token ]

(* send_progress_begin: the next token, and the channel after the send.     *)
send_progress_begin ==
    [ token |-> token_counter + 1,
      sent  |-> Append(notifications, Notification("begin", token_counter + 1)) ]

(* send_progress_end: the channel after the send.                           *)
send_progress_end(token) == Append(notifications, Notification("end", token))

Init ==
    /\ disk = [f \in Files |-> FileTree(f)]
    /\ root_exists = TRUE
    /\ locked \in BOOLEAN
    /\ overflow_checks \in BOOLEAN
    /\ ruby_version \in BOOLEAN
    /\ root_in_gems \in { b \in BOOLEAN : b => ruby_version }
    /\ pc = "new"
    /\ dir_i = 1
    /\ pending = { }
    /\ dir_symbols = << >>
    /\ collected = << >>
    /\ index_runs = 0
    /\ symbols = << >>
    /\ file_index = << >>
    /\ req = NoRequest
    /\ outcome = "none"
    /\ result = << >>
    /\ token_counter = 0
    /\ progress_token = 0
    /\ notifications = << >>

(* Server::new up to the call of index: RubyFilenameConverter::new runs the *)
(* project's bundle, which run_context_command finds only through the       *)
(* root's .ruby-version; without it construction fails and nothing is       *)
(* served.                                                                  *)
ServerNew ==
    /\ pc = "new"
    /\ pc' = IF ruby_version THEN "boot" ELSE "failed"
    /\ UNCHANGED << disk, root_exists, locked, overflow_checks, ruby_version,
                    root_in_gems, dir_i, pending, dir_symbols, collected,
                    index_runs, symbols, file_index, req, outcome, result >>
    /\ UNCHANGED progress_vars

(* The environment: the project directory is removed after the server was   *)
(* constructed and before index reads it; .ruby-version goes with it.       *)
RemoveRoot ==
    /\ pc = "boot"
    /\ dir_i = 1
    /\ root_exists
    /\ root_exists' = FALSE
    /\ ruby_version' = FALSE
    /\ disk' = [f \in { g \in DOMAIN disk : ~ StartsWith(PathOf(g), RootDir) } |-> disk[f]]
    /\ UNCHANGED << locked, overflow_checks, root_in_gems, pc, dir_i, pending,
                    dir_symbols, collected, index_runs, symbols, file_index,
                    req, outcome, result >>
    /\ UNCHANGED progress_vars

(* index_dir, up to handing the walk to the worker pool: the begin          *)
(* notification is sent first.                                              *)
IndexDirBegin ==
    /\ pc = "boot"
    /\ dir_i <= Len(IndexedDirs)
    /\ \E begun \in { send_progress_begin } :
          /\ token_counter' = begun.token
          /\ progress_token' = begun.token
          /\ notifications' = begun.sent
    /\ pc' = "walking"
    /\ pending' = DirFiles(IndexedDirs[dir_i])
    /\ dir_symbols' = << >>
    /\ UNCHANGED << disk, root_exists, locked, overflow_checks, ruby_version,
                    root_in_gems, dir_i, collected, index_runs, symbols,
                    file_index, req, outcome, result >>

(* A worker finishes index_file_cursor for one file; its symbols are        *)
(* appended as one block.                                                   *)
IndexFile(f) ==
    /\ pc = "walking"
    /\ f \in pending
    /\ IF ~ IndexingContextNew(f)
       THEN pc' = "crashed" /\ UNCHANGED << pending, dir_symbols >>
       ELSE
       \E parsed \in { index_file_cursor(f) } :
       IF Has(parsed, PanicSymbol)
       THEN pc' = "crashed" /\ UNCHANGED << pending, dir_symbols >>
       ELSE /\ pc' = pc
            /\ pending' = pending \ { f }
            /\ dir_symbols' = dir_symbols \o parsed
    /\ UNCHANGED << disk, root_exists, locked, overflow_checks, ruby_version,
                    root_in_gems, dir_i, collected, index_runs, symbols,
                    file_index, req, outcome, result >>
    /\ UNCHANGED progress_vars

(* IndexDirEnd with the directory's symbols put in front of the earlier     *)
(* directories'.                                                            *)
IndexDirEnd_Prepended ==
    /\ pc = "walking"
    /\ pending = { }
    /\ pc' = "boot"
    /\ collected' = dir_symbols \o collected
    /\ dir_symbols' = << >>
    /\ dir_i' = dir_i + 1
    /\ UNCHANGED << disk, root_exists, locked, overflow_checks, ruby_version,
                    root_in_gems, pending, index_runs, symbols, file_index, req,
                    outcome, result >>
    /\ notifications' = send_progress_end(progress_token)
    /\ progress_token' = 0
    /\ UNCHANGED token_counter

(* index_dir sends the end notification and returns; index() chains the    *)
(* directory's symbols.                                                     *)
IndexDirEnd ==
    /\ pc = "walking"
    /\ pending = { }
    /\ pc' = "boot"
    /\ collected' = collected \o dir_symbols
    /\ dir_symbols' = << >>
    /\ dir_i' = dir_i + 1
    /\ UNCHANGED << disk, root_exists, locked, overflow_checks, ruby_version,
                    root_in_gems, pending, index_runs, symbols, file_index,
                    req, outcome, result >>
    /\ notifications' = send_progress_end(progress_token)
    /\ progress_token' = 0
    /\ UNCHANGED token_counter

(* index(): self.symbols = symbols; self.build_file_index().                *)
IndexFinish ==
    /\ pc = "boot"
    /\ dir_i > Len(IndexedDirs)
    /\ pc' = "serving"
    /\ symbols' = collected
    /\ index_runs' = index_runs + 1
    /\ file_index' = build_file_index(collected)
    /\ collected' = << >>
    /\ UNCHANGED << disk, root_exists, locked, overflow_checks, ruby_version,
                    root_in_gems, dir_i, pending, dir_symbols, req, outcome,
                    result >>
    /\ UNCHANGED progress_vars

(* How many runs of index a behaviour holds.                                *)
MaxIndexRuns == 2

(* Indexer::index called again on the indexer that holds a table: the       *)
(* exclusive borrow keeps every query out until it has returned.            *)
Reindex ==
    /\ pc = "serving"
    /\ index_runs < MaxIndexRuns
    /\ pc' = "boot"
    /\ dir_i' = 1
    /\ collected' = << >>
    /\ UNCHANGED << disk, root_exists, locked, overflow_checks, ruby_version,
                    root_in_gems, pending, dir_symbols, index_runs, symbols,
                    file_index, req, outcome, result >>
    /\ UNCHANGED progress_vars

(* A go-to-definition request: Finder::find_definition.  A panic ends the   *)
(* process.                                                                 *)
GotoDefinition(file, position) ==
    /\ pc = "serving"
    /\ \E r \in { find_definition(file, position) } :
       /\ req' = [ method |-> "definition", file |-> file, position |-> position,
                   node |-> r.node ]
       /\ outcome' = r.outcome
       /\ result' = r.result
       /\ pc' = IF r.outcome = "panic" THEN "crashed" ELSE "responding"
    /\ UNCHANGED << disk, root_exists, locked, overflow_checks, ruby_version,
                    root_in_gems, dir_i, pending, dir_symbols, collected,
                    index_runs, symbols, file_index >>
    /\ UNCHANGED progress_vars

(* A document-symbol request: Finder::find_by_path.                         *)
DocumentSymbol(file) ==
    /\ pc = "serving"
    /\ req' = [ method |-> "documentSymbol", file |-> file ]
    /\ outcome' = "ok"
    /\ result' = find_by_path(file)
    /\ pc' = "responding"
    /\ UNCHANGED << disk, root_exists, locked, overflow_checks, ruby_version,
                    root_in_gems, dir_i, pending, dir_symbols, collected,
                    index_runs, symbols, file_index >>
    /\ UNCHANGED progress_vars

(* A workspace/symbol request: Finder::fuzzy_find_symbol, with what the     *)
(* matcher answers for this query.                                          *)
WorkspaceSymbol(query) ==
    /\ pc = "serving"
    /\ \E skim \in SkimAnswers({ symbols[i].name : i \in 1 .. Len(symbols) }, query) :
       \E r \in { fuzzy_find_symbol(query, skim) } :
          /\ req' = [ method |-> "workspace/symbol", query |-> query,
                      skim |-> IF r.matcher THEN skim ELSE << >>, matcher |-> r.matcher ]
          /\ result' = r.result
    /\ outcome' = "ok"
    /\ pc' = "responding"
    /\ UNCHANGED << disk, root_exists, locked, overflow_checks, ruby_version,
                    root_in_gems, dir_i, pending, dir_symbols, collected,
                    index_runs, symbols, file_index >>
    /\ UNCHANGED progress_vars

(* The queries a client sends.                                              *)
Queries == { "", "D", "s", "fo", "zz" }

(* The response is sent and the server waits for the next request.          *)
Reply ==
    /\ pc = "responding"
    /\ pc' = "serving"
    /\ req' = NoRequest
    /\ outcome' = "none"
    /\ result' = << >>
    /\ UNCHANGED << disk, root_exists, locked, overflow_checks, ruby_version,
                    root_in_gems, dir_i, pending, dir_symbols, collected,
                    index_runs, symbols, file_index >>
    /\ UNCHANGED progress_vars

Next ==
    \/ ServerNew
    \/ RemoveRoot
    \/ IndexDirBegin
    \/ \E f \in Files \cup { LockedFile } : IndexFile(f)
    \/ IndexDirEnd
    \/ IndexFinish
    \/ Reindex
    \/ \E f \in DOMAIN disk : \E position \in Positions(f) : GotoDefinition(f, position)
    \/ GotoDefinition(UnreadableFile, << 0, 0 >>)
    \/ \E f \in Files \cup { UnreadableFile } : DocumentSymbol(f)
    \/ \E query \in Queries : WorkspaceSymbol(query)
    \/ Reply

Spec == Init /\ [][Next]_vars

-----------------------------------------------------------------------------
(* ProgressReporter::track, applied to operations that return Ok or Err.    *)

(* How many calls of track a behaviour holds.                               *)
MaxTracked == 4

(* track(title, f): the begin notification, f(), and, unless `f()?` has     *)
(* returned the Err, the end notification with the token of the begin.      *)
track(f_ok) ==
    /\ token_counter < MaxTracked
    /\ \E begun \in { send_progress_begin } :
          /\ token_counter' = begun.token
          /\ notifications' =
                IF f_ok THEN Append(begun.sent, Notification("end", begun.token))
                ELSE begun.sent
    /\ UNCHANGED << disk, root_exists, locked, overflow_checks, ruby_version,
                    root_in_gems, pc, dir_i, pending, dir_symbols, collected,
                    index_runs, symbols, file_index, req, outcome, result,
                    progress_token >>

TrackNext == \E f_ok \in BOOLEAN : track(f_ok)

TrackSpec == Init /\ [][TrackNext]_vars

-----------------------------------------------------------------------------
(* What the answered request was about.                                     *)

AnsweredDefinition == pc \in { "responding", "crashed" } /\ req.method = "definition"

OnKind(kind) ==
    /\ AnsweredDefinition
    /\ req.file \in Files
    /\ Kind(req.file, req.node) = kind

(* The path the constant under the cursor refers to, its lexical nesting,   *)
(* and the scope its file's path implies.                                   *)
Referenced == get_parent_scope_resolution(req.file, req.node)

ContextScope == get_context_scope(req.file, req.node)

FileScope ==
    LET converted == path_to_scope(PathOf(req.file)) IN
    IF converted = << >> THEN << >> ELSE without_last(converted[1])

IsCandidate(s) == is_classlike(s.kind) \/ s.kind = "Constant"

(* The symbols of the table at the positions in S, in table order.          *)
SymbolsAt(S) ==
    LET at == SelectSeq([i \in 1 .. Len(symbols) |-> i], LAMBDA i : i \in S) IN
    [k \in 1 .. Len(at) |-> symbols[at[k]]]

NonAbsoluteConstant ==
    /\ OnKind("constant")
    /\ Referenced # PanicScope
    /\ ContextScope # PanicScope
    /\ ~ is_global(Referenced)

ScopedMatches ==
    { i \in 1 .. Len(symbols) :
        /\ IsCandidate(symbols[i])
        /\ \/ Qualified(symbols[i]) = ContextScope \o Referenced
           \/ Qualified(symbols[i]) = FileScope \o Referenced
           \/ (Qualified(symbols[i]) = Referenced /\ symbols[i].file = req.file) }

GlobalMatches ==
    { i \in 1 .. Len(symbols) :
        IsCandidate(symbols[i]) /\ Qualified(symbols[i]) = Referenced }

(* C1: for a non-absolute constant reference find_constant returns exactly  *)
(* the classlike/constant symbols whose qualified name scope.join(name) is  *)
(* context ++ referenced, or file-scope ++ referenced, or referenced with   *)
(* the symbol in the queried file; only when there is none does it return   *)
(* every classlike/constant symbol, of any file, whose qualified name is    *)
(* referenced.                                                              *)
C1_NonAbsoluteLookup ==
    NonAbsoluteConstant =>
        /\ outcome = "ok"
        /\ result = SymbolsAt(IF ScopedMatches # { } THEN ScopedMatches ELSE GlobalMatches)

(* C1 witness: a reference answered from the scoped search while a symbol   *)
(* of another file carries the referenced name as well.                     *)
C1_Witness ==
    /\ NonAbsoluteConstant
    /\ ScopedMatches # { }
    /\ GlobalMatches \ ScopedMatches # { }
    /\ Len(result) = Cardinality(ScopedMatches)

(* C1 witness of the second half: nothing matches in scope, so the answer   *)
(* is the global search.                                                    *)
C1_FallbackReached ==
    /\ NonAbsoluteConstant
    /\ ScopedMatches = { }
    /\ Len(result) > 0

-----------------------------------------------------------------------------
(* `::Foo`: the constant under the cursor is the name of a scope resolution *)
(* that has no scope to its left.                                           *)
AbsoluteSingleSegment ==
    /\ OnKind("constant")
    /\ Parent(req.file, req.node) # 0
    /\ Kind(req.file, Parent(req.file, req.node)) = "scope_resolution"
    /\ ChildByFieldName(req.file, Parent(req.file, req.node), "name") = req.node
    /\ ChildByFieldName(req.file, Parent(req.file, req.node), "scope") = 0
    /\ Parent(req.file, Parent(req.file, req.node)) # 0
    /\ Kind(req.file, Parent(req.file, Parent(req.file, req.node))) # "scope_resolution"

(* C2: resolving the single-segment absolute reference `::Foo` from inside  *)
(* any nesting returns only top-level (empty-scope) symbols named Foo,      *)
(* never one nested under the lexical scope; parent-scope-resolution tags   *)
(* the reference with the global sentinel.                                  *)
C2_AbsoluteSingleSegmentTopLevelOnly ==
    AbsoluteSingleSegment =>
        /\ is_global(Referenced)
        /\ outcome = "ok"
        /\ \A k \in 1 .. Len(result) :
              result[k].scope = << >> /\ result[k].name = Text(req.file, req.node)

(* C2, the failing case: `::Foo` answered with a Foo declared in an         *)
(* enclosing module of the reference.                                       *)
C2_NestedReturned ==
    /\ AbsoluteSingleSegment
    /\ ~ is_global(Referenced)
    /\ outcome = "ok"
    /\ \E k \in 1 .. Len(result) :
          /\ result[k].scope # << >>
          /\ result[k].file = req.file
          /\ result[k].parent # << >>
          /\ PointLT(result[k].parent[1].start, Start(req.file, req.node))
          /\ PointLT(End(req.file, req.node), result[k].parent[1].end)

AbsoluteMultiSegment ==
    /\ OnKind("constant")
    /\ Referenced # PanicScope
    /\ is_global(Referenced)

(* C3: for an absolute multi-segment reference (`::G::S`, cursor on S)      *)
(* find_constant returns exactly the classlike/constant symbols, of any     *)
(* file, whose qualified path is the referenced path without the sentinel   *)
(* (G::S), whatever the lexical context and the file-scope.                 *)
C3_AbsoluteMultiSegmentGlobalOnly ==
    AbsoluteMultiSegment =>
        /\ outcome = "ok"
        /\ result = SymbolsAt({ i \in 1 .. Len(symbols) :
                                  /\ IsCandidate(symbols[i])
                                  /\ Qualified(symbols[i]) = Tail(Referenced) })

(* The class or module declarations whose nesting and name spell `path`.    *)
DeclaredAs(path) ==
    { i \in 1 .. Len(symbols) :
        /\ is_classlike(symbols[i].kind)
        /\ Cat(get_context_scope(symbols[i].file, symbols[i].node),
               LET name == ChildByFieldName(symbols[i].file, symbols[i].node, "name")
                   full == get_full_scope_resolution(symbols[i].file, name)
               IN  IF is_global(full) THEN Tail(full) ELSE full) = path }

(* C3, the failing case: the class declared as `class S` inside `module G`  *)
(* is in the table and is not in the answer to `::G::S`.                    *)
C3_DeclaredClassMissed ==
    /\ AbsoluteMultiSegment
    /\ outcome = "ok"
    /\ \E i \in DeclaredAs(Tail(Referenced)) :
          /\ symbols[i].name = Referenced[Len(Referenced)]
          /\ ~ Has(result, symbols[i])

(* The innermost class or module whose body holds node n; 0 when none.      *)
RECURSIVE EnclosingClass(_, _)
EnclosingClass(f, n) ==
    IF Parent(f, n) = 0 THEN 0
    ELSE IF Kind(f, Parent(f, n)) \in { "class", "module" } THEN Parent(f, n)
    ELSE EnclosingClass(f, Parent(f, n))

IsAssignmentTarget(f, n) ==
    /\ Parent(f, n) # 0
    /\ Kind(f, Parent(f, n)) = "assignment"
    /\ ChildByFieldName(f, Parent(f, n), "left") = n

(* The constants of the referenced name assigned in the body of the class   *)
(* the reference stands in.                                                 *)
DeclaredInEnclosingClass ==
    { i \in 1 .. Len(symbols) :
        /\ symbols[i].kind = "Constant"
        /\ symbols[i].file = req.file
        /\ symbols[i].name = Text(req.file, req.node)
        /\ symbols[i].parent # << >>
        /\ symbols[i].parent[1].node = EnclosingClass(req.file, req.node) }

NestedConstantReference ==
    /\ NonAbsoluteConstant
    /\ Len(Referenced) = 1
    /\ ~ IsAssignmentTarget(req.file, req.node)
    /\ EnclosingClass(req.file, req.node) # 0
    /\ DeclaredInEnclosingClass # { }

(* C4: with `class C; D = 1; end` inside modules A::B and an unrelated      *)
(* top-level D in the same or another file, resolving D from inside C       *)
(* returns the D of A::B::C, and no top-level D in its place or ahead of    *)
(* it.                                                                      *)
C4_NestedConstantPreferred ==
    NestedConstantReference =>
        /\ outcome = "ok"
        /\ \A i \in DeclaredInEnclosingClass : Has(result, symbols[i])
        /\ \A k \in 1 .. Len(result) :
              result[k].scope = << >> =>
                  \E j \in 1 .. k - 1 : \E i \in DeclaredInEnclosingClass :
                      result[j] = symbols[i]

(* C4, the failing case: only top-level D symbols are returned.             *)
C4_TopLevelReturnedInstead ==
    /\ NestedConstantReference
    /\ outcome = "ok"
    /\ Len(result) > 0
    /\ \A k \in 1 .. Len(result) : result[k].scope = << >>

-----------------------------------------------------------------------------
Indexed == pc \in { "serving", "responding", "crashed" } /\ dir_i > Len(IndexedDirs)

(* The declarations `class Outer::Inner`: a class or module whose name is a *)
(* relative qualified path.                                                 *)
ScopedDeclarations ==
    { i \in 1 .. Len(symbols) :
        /\ is_classlike(symbols[i].kind)
        /\ LET name == ChildByFieldName(symbols[i].file, symbols[i].node, "name") IN
           /\ Kind(symbols[i].file, name) = "scope_resolution"
           /\ ~ is_global(get_full_scope_resolution(symbols[i].file, name)) }

DeclaredPath(s) ==
    Cat(get_context_scope(s.file, s.node),
        get_full_scope_resolution(s.file, ChildByFieldName(s.file, s.node, "name")))

(* A reference, outside every declaration's own name, whose path is the     *)
(* one some scoped declaration spells.                                      *)
ReferenceToScopedDeclaration ==
    /\ NonAbsoluteConstant
    /\ Kind(req.file, Parent(req.file, req.node)) = "scope_resolution"
    /\ Kind(req.file, Parent(req.file, Parent(req.file, req.node))) \notin { "class", "module" }
    /\ \E i \in ScopedDeclarations : DeclaredPath(symbols[i]) = Referenced

(* C5: indexing `class Outer::Inner; end` gives one classlike symbol with   *)
(* scope [Outer] and name Inner (scope.join(name) = Outer::Inner), and a    *)
(* reference `Outer::Inner` elsewhere resolves to exactly that symbol.      *)
C5_ScopedClassDeclaration ==
    /\ Indexed =>
          \A i \in ScopedDeclarations :
              LET path == DeclaredPath(symbols[i]) IN
              /\ symbols[i].scope = without_last(path)
              /\ symbols[i].name = path[Len(path)]
    /\ ReferenceToScopedDeclaration =>
          /\ outcome = "ok"
          /\ Len(result) > 0
          /\ \A k \in 1 .. Len(result) :
                \E i \in ScopedDeclarations :
                    result[k] = symbols[i] /\ DeclaredPath(symbols[i]) = Referenced

(* C5, the failing case: `Outer::Inner` is declared, the declaration's      *)
(* symbol is named by the whole path, and the reference resolves to         *)
(* nothing.                                                                 *)
C5_DeclarationNotFound ==
    /\ ReferenceToScopedDeclaration
    /\ outcome = "ok"
    /\ result = << >>
    /\ \E i \in ScopedDeclarations :
          /\ DeclaredPath(symbols[i]) = Referenced
          /\ symbols[i].scope = Referenced
          /\ symbols[i].name # Referenced[Len(Referenced)]

-----------------------------------------------------------------------------
(* The innermost method definition whose subtree holds node n; 0 when none. *)
RECURSIVE EnclosingMethod(_, _)
EnclosingMethod(f, n) ==
    IF Parent(f, n) = 0 THEN 0
    ELSE IF Kind(f, Parent(f, n)) \in { "method", "singleton_method" } THEN Parent(f, n)
    ELSE EnclosingMethod(f, Parent(f, n))

(* An identifier in the body of a method.                                   *)
IdentifierInMethodBody ==
    /\ OnKind("identifier")
    /\ EnclosingMethod(req.file, req.node) # 0
    /\ Kind(req.file, Parent(req.file, req.node)) # "method_parameters"
    /\ ChildByFieldName(req.file, EnclosingMethod(req.file, req.node), "name") # req.node

(* The left-hand sides, in the enclosing method, of the assignments to the  *)
(* identifier's name that start before the identifier.                      *)
PrecedingAssignments ==
    LET f == req.file
        m == EnclosingMethod(f, req.node)
    IN  { a \in Nodes(f) :
            /\ Kind(f, a) = "identifier"
            /\ IsAssignmentTarget(f, a)
            /\ Has(Subtree(f, m), a)
            /\ Text(f, a) = Text(f, req.node)
            /\ PointLT(Start(f, a), Start(f, req.node)) }

(* The parameters of the enclosing method that carry the identifier's name. *)
SameNameParameters ==
    LET f == req.file
        m == EnclosingMethod(f, req.node)
    IN  { p \in Nodes(f) :
            /\ Kind(f, p) = "identifier"
            /\ Parent(f, p) = ChildByFieldName(f, m, "parameters")
            /\ Text(f, p) = Text(f, req.node) }

(* C6: in a method with a parameter x and an assignment to x before the     *)
(* reference, find_definition on the later use of x returns one Variable    *)
(* symbol placed at the assignment's left-hand side, never at the           *)
(* parameter; the parameter's position is returned only when no assignment  *)
(* to x precedes the reference.                                             *)
C6_AssignmentBeforeParameter ==
    (IdentifierInMethodBody /\ SameNameParameters # { }) =>
        /\ outcome = "ok"
        /\ Len(result) = 1
        /\ result[1].kind = "Variable"
        /\ IF PrecedingAssignments # { }
           THEN \E a \in PrecedingAssignments :
                   /\ result[1].start = Start(req.file, a)
                   /\ result[1].end = End(req.file, a)
           ELSE \E p \in SameNameParameters :
                   /\ result[1].start = Start(req.file, p)
                   /\ result[1].end = End(req.file, p)

(* C6, the failing case: x is a parameter and was assigned before the       *)
(* reference, and the answer is the left-hand side of an assignment to      *)
(* another variable.                                                        *)
C6_OtherVariableReturned ==
    /\ IdentifierInMethodBody
    /\ SameNameParameters # { }
    /\ PrecedingAssignments # { }
    /\ outcome = "ok"
    /\ Len(result) = 1
    /\ \E a \in Nodes(req.file) :
          /\ IsAssignmentTarget(req.file, a)
          /\ result[1].start = Start(req.file, a)
          /\ Text(req.file, a) # Text(req.file, req.node)

(* C7: with several assignments to the referenced identifier in the method  *)
(* body, the one returned is the closest before the reference (the greatest *)
(* start position below the reference's); an assignment after the reference *)
(* or to another name is never returned.                                    *)
C7_ClosestPrecedingAssignment ==
    (IdentifierInMethodBody /\ PrecedingAssignments # { }) =>
        /\ outcome = "ok"
        /\ Len(result) = 1
        /\ \E a \in PrecedingAssignments :
              /\ result[1].start = Start(req.file, a)
              /\ \A b \in PrecedingAssignments :
                    ~ PointLT(Start(req.file, a), Start(req.file, b))

(* C7, the failing case: two assignments to the name precede the reference  *)
(* and the answer is the earlier one.                                       *)
C7_EarliestReturned ==
    /\ IdentifierInMethodBody
    /\ outcome = "ok"
    /\ Len(result) = 1
    /\ \E a, b \in PrecedingAssignments :
          /\ PointLT(Start(req.file, a), Start(req.file, b))
          /\ result[1].start = Start(req.file, a)

-----------------------------------------------------------------------------
(* An identifier outside every method: at the top level of the file or      *)
(* directly in a class or module body.                                      *)
IdentifierOutsideMethods ==
    /\ OnKind("identifier")
    /\ EnclosingMethod(req.file, req.node) = 0

(* C8: when the identifier under the cursor has no enclosing method, or its *)
(* enclosing scope symbol is a bare class or module, find_definition        *)
(* returns an empty candidate list; it never panics.                        *)
C8_NoMethodEmptyList ==
    IdentifierOutsideMethods => (outcome = "ok" /\ result = << >>)

(* C8, the failing case: an identifier in a class body, outside every       *)
(* method, ends the process.                                                *)
C8_ClassBodyPanics ==
    /\ IdentifierOutsideMethods
    /\ EnclosingClass(req.file, req.node) # 0
    /\ outcome = "panic"
    /\ pc = "crashed"

SupportedKinds == { "constant", "identifier", "global_variable" }

(* C9: find_definition fails exactly when no node is at the cursor or the   *)
(* node's kind is none of constant, identifier, global_variable; for these  *)
(* three kinds it always succeeds, with an empty list when nothing matches. *)
C9_FailureIffUnsupportedKind ==
    (AnsweredDefinition /\ req.file \in Files) =>
        /\ outcome = "err" <=> Kind(req.file, req.node) \notin SupportedKinds
        /\ Kind(req.file, req.node) \in SupportedKinds => outcome = "ok"

(* C9, the failing case: a constant under the cursor, qualified by          *)
(* something that is no constant (`self::Foo`), neither succeeds nor fails. *)
C9_ConstantPanics ==
    /\ OnKind("constant")
    /\ outcome = "panic"
    /\ Referenced = PanicScope

(* C10: once index has completed, for every file f the file index holds     *)
(* exactly the symbols of the global list whose file is f, none missing and *)
(* none extra, and all files' entries together make up the global list;     *)
(* for every order in which the workers finish and every layout of the      *)
(* indexed directories.                                                     *)
C10_FileIndexMatchesList ==
    Indexed =>
        /\ \A f \in Files \cup { UnreadableFile } :
              (IF file_symbols(f) = << >> THEN << >> ELSE file_symbols(f)[1]) = find_by_path(f)
        /\ \A i \in 1 .. Len(symbols) :
              /\ symbols[i].file \in DOMAIN file_index
              /\ Has(file_index[symbols[i].file], symbols[i])

(* C10, the failing case: a file reached through two indexed directories    *)
(* has its symbols twice in the global list and once in the file index.     *)
C10_FileIndexShort ==
    /\ Indexed
    /\ \E f \in DOMAIN file_index :
          /\ Len(find_by_path(f)) > Len(file_index[f])
          /\ f \in DirFiles("gems") \cap DirFiles("root")

-----------------------------------------------------------------------------
(* workspace/symbol requests.                                               *)

AnsweredSymbolQuery == pc = "responding" /\ req.method = "workspace/symbol"

(* C11: fuzzy search with the empty query returns the empty list for every  *)
(* symbol table, without invoking the matcher.                              *)
C11_EmptyQueryEmptyList ==
    (AnsweredSymbolQuery /\ req.query = "") => (result = << >> /\ ~ req.matcher)

(* C11 witness: the empty query answered with nothing while the table       *)
(* holds symbols.                                                           *)
C11_Witness ==
    /\ AnsweredSymbolQuery
    /\ req.query = ""
    /\ result = << >>
    /\ Len(symbols) > 0

(* How often x occurs in the sequence s.                                    *)
Occurrences(s, x) == Cardinality({ i \in 1 .. Len(s) : s[i] = x })

SameMultiset(s, t) ==
    /\ Len(s) = Len(t)
    /\ \A i \in 1 .. Len(s) : Occurrences(s, s[i]) = Occurrences(t, s[i])

InProjectRoot(s) == StartsWith(PathOf(s.file), RootDir)

(* The rank the matcher's answer gives a symbol: score, side of the project *)
(* root, negated first and last matched index, negated name length.         *)
ClaimedRank(s) ==
    LET answer == req.skim[s.name] IN
    << answer.score,
       IF InProjectRoot(s) THEN 1 ELSE -1,
       IF answer.indices = << >> THEN 0 ELSE - answer.indices[1],
       IF answer.indices = << >> THEN 0 ELSE - answer.indices[Len(answer.indices)],
       - Len(Chars(s.name)) >>

(* a >= b in the lexicographic order of equally long integer sequences.     *)
LexGreaterEq(a, b) ==
    \/ a = b
    \/ \E k \in 1 .. Len(a) : a[k] > b[k] /\ \A m \in 1 .. k - 1 : a[m] = b[m]

(* C12: the fuzzy matcher returns exactly the symbols whose name matches    *)
(* the query, ordered by descending lexicographic rank (score, +1 inside    *)
(* the project root else -1, -first matched index, -last matched index,     *)
(* -name length); of two symbols with equal score the one inside the        *)
(* project root precedes the one outside it.                                *)
C12_MatchedSymbolsByDescendingRank ==
    (AnsweredSymbolQuery /\ req.matcher) =>
        /\ SameMultiset(result, SelectSeq(symbols, LAMBDA s : s.name \in DOMAIN req.skim))
        /\ \A i, j \in 1 .. Len(result) :
              i < j => LexGreaterEq(ClaimedRank(result[i]), ClaimedRank(result[j]))
        /\ \A i, j \in 1 .. Len(result) :
              ( /\ req.skim[result[i].name].score = req.skim[result[j].name].score
                /\ InProjectRoot(result[i])
                /\ ~ InProjectRoot(result[j]) ) => i < j

(* C12 witness: two matched symbols of equal score on the two sides of the  *)
(* project root, and two matched names of different score, in one answer.   *)
C12_Witness ==
    /\ AnsweredSymbolQuery
    /\ req.matcher
    /\ \E i, j \in 1 .. Len(result) :
          /\ i < j
          /\ req.skim[result[i].name].score = req.skim[result[j].name].score
          /\ InProjectRoot(result[i])
          /\ ~ InProjectRoot(result[j])
    /\ \E i, j \in 1 .. Len(result) :
          req.skim[result[i].name].score > req.skim[result[j].name].score

-----------------------------------------------------------------------------
(* Failures while indexing.                                                 *)

IndexAborted == pc = "crashed" /\ req = NoRequest

IndexCompleted == pc \in { "serving", "responding" }

(* C13: a per-file failure while indexing (the file cannot be read, its     *)
(* build aborts) affects only that file: the file is skipped, the index run *)
(* continues and completes, and the symbols of every other file are in the  *)
(* resulting table.                                                         *)
C13_PerFileFailureSkipped ==
    /\ ~ IndexAborted
    /\ IndexCompleted =>
          \A f \in DOMAIN disk :
              (f \in DirFiles("root") /\ Len(index_file_cursor(f)) > 0)
                  => \E i \in 1 .. Len(symbols) : symbols[i].file = f

(* C13, the failing case: the walk reaches the unreadable file and the      *)
(* whole run ends, with the symbols of a file built before it lost.         *)
C13_UnreadableFileAbortsIndex ==
    /\ IndexAborted
    /\ locked
    /\ LockedFile \in pending
    /\ \E i \in 1 .. Len(dir_symbols) : dir_symbols[i].file \in DOMAIN disk

(* C14: index returns an error when it is misconfigured entirely, as when   *)
(* the project root directory does not exist; it does not report success    *)
(* with an empty or partial symbol table then.                              *)
C14_MissingRootIsAnError ==
    ~ root_exists => ~ IndexCompleted

(* C14, the failing case: the root directory is gone, index has returned    *)
(* Ok and the server answers from an empty table.                           *)
C14_EmptyTableServed ==
    /\ ~ root_exists
    /\ pc = "serving"
    /\ symbols = << >>
    /\ DOMAIN file_index = { }

-----------------------------------------------------------------------------
(* The table one sequential run builds from the files as they are: the      *)
(* directories in index's order, the files of each in one fixed order.      *)
RECURSIVE BuiltFrom(_)
BuiltFrom(files) ==
    IF files = { } THEN << >>
    ELSE LET f == CHOOSE g \in files : TRUE
         IN  index_file_cursor(f) \o BuiltFrom(files \ { f })

RECURSIVE BuiltFromDirs(_)
BuiltFromDirs(dirs) ==
    IF Len(dirs) = 0 THEN << >>
    ELSE BuiltFrom(DirFiles(Head(dirs))) \o BuiltFromDirs(Tail(dirs))

-----------------------------------------------------------------------------
(* A query is being answered or can be asked.                               *)
QueryCanObserve == pc \in { "serving", "responding" }

(* The file index and the list are those of one run: every entry of the     *)
(* index holds symbols of the list under their own file, and every file of  *)
(* the list has an entry.                                                   *)
IndexOfThisList ==
    /\ \A f \in DOMAIN file_index :
          \A k \in 1 .. Len(file_index[f]) :
              file_index[f][k].file = f /\ Has(symbols, file_index[f][k])
    /\ \A i \in 1 .. Len(symbols) : symbols[i].file \in DOMAIN file_index

C16_PreviousTableDuringRun ==
    /\ pc = "walking"
    /\ index_runs = 1
    /\ Len(dir_symbols) > 0
    /\ Len(symbols) > 0
    /\ IndexOfThisList

-----------------------------------------------------------------------------
(* A scope that keeps the sentinel to its first segment.                    *)
SentinelOnlyFirst(scope) ==
    \A i \in 2 .. Len(scope) : scope[i] # GLOBAL_SCOPE_VALUE

(* A definition request on a constant is being answered: find_constant has  *)
(* computed the scopes of req.node.                                         *)
ConstantRequested ==
    /\ pc = "responding"
    /\ req.method = "definition"
    /\ req.file \in DOMAIN disk
    /\ Kind(req.file, req.node) = "constant"

(* C17: in every scope that join, get_parent_scope_resolution,              *)
(* get_context_scope or get_full_and_context_scope produce, the global      *)
(* sentinel occurs only as the first segment, whatever the nesting of       *)
(* declarations and qualified paths, an absolute name declared inside       *)
(* another class or module included: here for the scopes find_constant      *)
(* computes for the requested node and the scopes of the indexed symbols.   *)
C17_SentinelOnlyFirstSegment ==
    /\ \A i \in 1 .. Len(symbols) :
          /\ SentinelOnlyFirst(symbols[i].scope)
          /\ SentinelOnlyFirst(Qualified(symbols[i]))
    /\ ConstantRequested =>
          /\ SentinelOnlyFirst(get_parent_scope_resolution(req.file, req.node))
          /\ SentinelOnlyFirst(get_context_scope(req.file, req.node))
          /\ SentinelOnlyFirst(get_full_and_context_scope(req.file, req.node))
          /\ SentinelOnlyFirst(Join(get_context_scope(req.file, req.node),
                                    get_parent_scope_resolution(req.file, req.node)))

(* The state that breaks C17: the request names Foo in                      *)
(*   module D; class ::G::S; Foo; end; end                                  *)
(* and get_context_scope chains the full name of every enclosing            *)
(* declaration, the sentinel of ::G::S after D.                             *)
C17_SentinelAfterEnclosingModule ==
    /\ ConstantRequested
    /\ req.file = "gem"
    /\ Text(req.file, req.node) = "Foo"
    /\ get_context_scope(req.file, req.node) = << "D", GLOBAL_SCOPE_VALUE, "G", "S" >>
    /\ get_full_and_context_scope(req.file, req.node)
          = << "D", GLOBAL_SCOPE_VALUE, "G", "S", "Foo" >>

-----------------------------------------------------------------------------
(* types.rs: Itertools::join(SCOPE_DELIMITER) over the segments.            *)
RECURSIVE JoinSegments(_)
JoinSegments(segments) ==
    IF Len(segments) = 0 THEN ""
    ELSE IF Len(segments) = 1 THEN segments[1]
    ELSE segments[1] \o SCOPE_DELIMITER \o JoinSegments(Tail(segments))

(* impl Display for Scope.                                                  *)
Display(scope) ==
    IF is_global(scope) THEN JoinSegments(Tail(scope)) ELSE JoinSegments(scope)

(* #[derive(PartialEq)] on Scope: the segment vectors are equal.            *)
ScopeEq(a, b) ==
    /\ Len(a) = Len(b)
    /\ \A i \in 1 .. Len(a) : a[i] = b[i]

(* The answered request names a constant through an absolute path.          *)
AbsoluteRequested ==
    /\ ConstantRequested
    /\ is_global(get_parent_scope_resolution(req.file, req.node))

(* C18: the sentinel is stripped before rendering and before comparison     *)
(* with a non-global scope: for the absolute path [sentinel, s1..sn] of an  *)
(* answered request, it renders as [s1..sn] does, join drops its sentinel,  *)
(* and it compares equal to the scope [s1..sn] of an indexed symbol, which  *)
(* the answer of the comparison-driven search therefore holds.              *)
C18_SentinelStrippedForDisplayAndComparison ==
    AbsoluteRequested =>
        LET constant_scope == get_parent_scope_resolution(req.file, req.node)
            stripped       == Tail(constant_scope)
        IN  /\ Display(constant_scope) = Display(stripped)
            /\ Join(get_context_scope(req.file, req.node), constant_scope)
                  = get_context_scope(req.file, req.node) \o stripped
            /\ ScopeEq(constant_scope, stripped)
            /\ \A i \in 1 .. Len(symbols) :
                  (/\ is_classlike(symbols[i].kind) \/ symbols[i].kind = "Constant"
                   /\ symbols[i].scope = stripped) => Has(result, symbols[i])

(* The state that breaks C18: `include ::G::S` is asked for, the class S of *)
(* module G is indexed with the scope [G, S], the path renders "G::S" with  *)
(* and without the sentinel, and the derived equality tells the two apart.  *)
C18_SentinelComparedAsSegment ==
    /\ AbsoluteRequested
    /\ LET constant_scope == get_parent_scope_resolution(req.file, req.node)
       IN  /\ constant_scope = << GLOBAL_SCOPE_VALUE, "G", "S" >>
           /\ Display(constant_scope) = "G::S"
           /\ Display(Tail(constant_scope)) = "G::S"
           /\ ~ ScopeEq(constant_scope, Tail(constant_scope))
           /\ \E i \in 1 .. Len(symbols) :
                 /\ symbols[i].kind = "Class"
                 /\ symbols[i].scope = << "G", "S" >>
                 /\ ~ Has(result, symbols[i])

-----------------------------------------------------------------------------
(* The names of the classlike symbols on the parent chain of s, outermost   *)
(* first.                                                                   *)
RECURSIVE AncestorNames(_)
AncestorNames(s) ==
    IF s.parent = << >> THEN << >>
    ELSE AncestorNames(s.parent[1])
         \o (IF is_classlike(s.parent[1].kind) THEN << s.parent[1].name >> ELSE << >>)

(* C19: for every classlike symbol of the index, scope.join(name) is the    *)
(* names of its classlike ancestors, outermost first, followed by its own   *)
(* name: the scope is the enclosing namespace, without the symbol's name.   *)
C19_ClasslikeScopeIsEnclosingNamespace ==
    \A i \in 1 .. Len(symbols) :
        is_classlike(symbols[i].kind) =>
            /\ Qualified(symbols[i]) = AncestorNames(symbols[i]) \o << symbols[i].name >>
            /\ symbols[i].scope = AncestorNames(symbols[i])

(* The state that breaks C19: class C of module B of module A is indexed    *)
(* with the scope [A, B, C], so scope.join(name) is [A, B, C, C] while the  *)
(* parent chain gives [A, B] and then C.                                    *)
C19_ScopeHoldsOwnName ==
    /\ pc = "serving"
    /\ \E i \in 1 .. Len(symbols) :
          /\ symbols[i].kind = "Class"
          /\ symbols[i].name = "C"
          /\ symbols[i].file = "abc"
          /\ AncestorNames(symbols[i]) = << "A", "B" >>
          /\ symbols[i].scope = << "A", "B", "C" >>
          /\ Qualified(symbols[i]) = << "A", "B", "C", "C" >>

-----------------------------------------------------------------------------
(* The answered request names a constant, not through an absolute path, in  *)
(* a file path_to_scope fails for.                                          *)
RequestedWithoutFileScope ==
    /\ ConstantRequested
    /\ ~ is_global(get_parent_scope_resolution(req.file, req.node))
    /\ path_to_scope(PathOf(req.file)) = << >>

(* The first-phase candidates context + same-file literal matching leaves.  *)
ContextOrSameFileLiteral(s) ==
    /\ is_classlike(s.kind) \/ s.kind = "Constant"
    /\ \/ Qualified(s) = Join(get_context_scope(req.file, req.node),
                              get_parent_scope_resolution(req.file, req.node))
       \/ /\ Qualified(s) = get_parent_scope_resolution(req.file, req.node)
          /\ s.file = req.file

(* C20: when path_to_scope fails for the queried file, constant resolution  *)
(* degrades to context and same-file literal matching: every symbol of the  *)
(* answer is named context ++ referenced, or referenced in the queried      *)
(* file, unless no symbol is (the global fallback).                         *)
C20_DegradesToContextAndSameFileLiteral ==
    RequestedWithoutFileScope =>
        \/ \A k \in 1 .. Len(result) : ContextOrSameFileLiteral(result[k])
        \/ \A i \in 1 .. Len(symbols) : ~ ContextOrSameFileLiteral(symbols[i])

(* The state that breaks C20: D is asked for inside `module D` of the gem   *)
(* file, which is outside the project root; module D matches through the    *)
(* context, and the answer also holds the top-level D of the project file.  *)
C20_OtherFileLiteralInFirstPhase ==
    /\ RequestedWithoutFileScope
    /\ req.file = "gem"
    /\ get_context_scope(req.file, req.node) = << "D" >>
    /\ \E k \in 1 .. Len(result) :
          /\ result[k].kind = "Module"
          /\ ContextOrSameFileLiteral(result[k])
    /\ \E k \in 1 .. Len(result) :
          /\ result[k].file = "abc"
          /\ result[k].scope = << >>
          /\ result[k].name = "D"

-----------------------------------------------------------------------------
(* A definition request on an identifier has gone through                   *)
(* determine_context (answered, or ended in a panic afterwards).            *)
IdentifierRequested ==
    /\ pc \in { "responding", "crashed" }
    /\ req.method = "definition"
    /\ req.file \in DOMAIN disk
    /\ Kind(req.file, req.node) = "identifier"

PointLE(a, b) == ~ PointLT(b, a)

HoldsIdentifier(s) ==
    /\ s.file = req.file
    /\ PointLT(s.start, Start(req.file, req.node))
    /\ PointLT(End(req.file, req.node), s.end)

MethodOrClasslike(s) ==
    s.kind \in { "InstanceMethod", "SingletonMethod", "Class", "Module" }

(* C21: the enclosing scope symbol chosen for an identifier is a method or  *)
(* classlike symbol of the same file whose range strictly holds the         *)
(* identifier, and the innermost one: every other method or classlike       *)
(* symbol that strictly holds the identifier holds the chosen symbol.       *)
C21_ChosenScopeSymbolIsInnermostMethodOrClasslike ==
    IdentifierRequested =>
        LET chosen == determine_context(req.file, req.node) IN
        (chosen # << >> /\ chosen # << PanicSymbol >>) =>
            /\ MethodOrClasslike(chosen[1])
            /\ HoldsIdentifier(chosen[1])
            /\ \A i \in 1 .. Len(symbols) :
                  (MethodOrClasslike(symbols[i]) /\ HoldsIdentifier(symbols[i])) =>
                      /\ PointLE(symbols[i].start, chosen[1].start)
                      /\ PointLE(chosen[1].end, symbols[i].end)

(* The state that breaks C21: v of the top-level `$h = v.r` is asked for;   *)
(* the only symbol whose range holds it is the global variable $h, whose    *)
(* range is the whole assignment, and determine_context chooses it.         *)
C21_GlobalVariableChosen ==
    /\ IdentifierRequested
    /\ pc = "responding"
    /\ Text(req.file, req.node) = "v"
    /\ determine_context(req.file, req.node) # << >>
    /\ determine_context(req.file, req.node)[1].kind = "GlobalVariable"
    /\ determine_context(req.file, req.node)[1].name = "$h"
    /\ result = << >>

-----------------------------------------------------------------------------
(* The answered request names the method of a call inside a method, and no  *)
(* local assignment or parameter answers it first.                          *)
CalledMethodRequested ==
    /\ IdentifierRequested
    /\ pc = "responding"
    /\ LET chosen == determine_context(req.file, req.node) IN
       /\ chosen # << >>
       /\ chosen[1].kind \in { "InstanceMethod", "SingletonMethod" }
       /\ find_first_assignment_with_lhs_text_with_query(req.file, req.node, chosen[1].node) = 0
       /\ \A k \in 1 .. Len(chosen[1].parameters) :
             chosen[1].parameters[k].name # Text(req.file, req.node)
    /\ Kind(req.file, Parent(req.file, req.node)) = "call"
    /\ ChildByFieldName(req.file, Parent(req.file, req.node), "method") = req.node

RequestedReceiver == ChildByFieldName(req.file, Parent(req.file, req.node), "receiver")

(* The method kind of the context: singleton methods inside a singleton     *)
(* method, instance methods otherwise.                                      *)
ContextMethodKind ==
    IF determine_context(req.file, req.node)[1].kind = "SingletonMethod"
    THEN "SingletonMethod" ELSE "InstanceMethod"

NamedMethod(s) == s.kind = ContextMethodKind /\ s.name = Text(req.file, req.node)

(* The global search: the methods of that name and kind, the ones of files  *)
(* inside the project root first.                                           *)
IsGlobalMethodSearch(found) ==
    /\ \A k \in 1 .. Len(found) : NamedMethod(found[k])
    /\ \A i \in 1 .. Len(symbols) :
          NamedMethod(symbols[i]) => Occurrences(found, symbols[i]) = Occurrences(symbols, symbols[i])
    /\ \A j, k \in 1 .. Len(found) :
          (j < k /\ StartsWith(PathOf(found[k].file), RootDir))
              => StartsWith(PathOf(found[j].file), RootDir)

(* C22: for the method name of a call inside a method, with no local        *)
(* assignment or parameter of that name: without receiver or with self the  *)
(* answer is the methods of the enclosing scope; with a constant or         *)
(* qualified receiver it lies within the receiver's scope; with any other   *)
(* receiver, whatever its node kind, it is the global search by name and    *)
(* method kind, project symbols first.                                      *)
C22_CallResolvesByReceiverShape ==
    CalledMethodRequested =>
        IF RequestedReceiver = 0 \/ Kind(req.file, RequestedReceiver) = "self"
        THEN \A k \in 1 .. Len(result) :
                /\ NamedMethod(result[k])
                /\ result[k].scope = determine_context(req.file, req.node)[1].scope
        ELSE IF Kind(req.file, RequestedReceiver) \in { "constant", "scope_resolution" }
        THEN \A k \in 1 .. Len(result) :
                /\ NamedMethod(result[k])
                /\ result[k].scope = get_full_scope_resolution(req.file, RequestedReceiver)
        ELSE IsGlobalMethodSearch(result)

(* The state that breaks C22: r of `nil.r` inside the instance method r of  *)
(* class K is asked for; nil is not a kind of the vocabulary, and the       *)
(* answer is empty although the instance method r is indexed.               *)
C22_UnknownReceiverAnswersNothing ==
    /\ CalledMethodRequested
    /\ Kind(req.file, RequestedReceiver) = "nil"
    /\ result = << >>
    /\ \E i \in 1 .. Len(symbols) : NamedMethod(symbols[i])

(* A receiver of the vocabulary that is neither self nor a constant: the    *)
(* identifier v of `v.r` gets the global search.                            *)
C22_IdentifierReceiverSearchedGlobally ==
    /\ CalledMethodRequested
    /\ Kind(req.file, RequestedReceiver) = "identifier"
    /\ Len(result) > 0
    /\ IsGlobalMethodSearch(result)

-----------------------------------------------------------------------------
(* The answered request names an identifier inside a method that is no      *)
(* local, no parameter and not part of a call: the last step of             *)
(* find_identifier answers.                                                 *)
ScopeMemberRequested ==
    /\ IdentifierRequested
    /\ pc = "responding"
    /\ LET chosen == determine_context(req.file, req.node) IN
       /\ chosen # << >>
       /\ chosen[1].kind \in { "InstanceMethod", "SingletonMethod" }
       /\ find_first_assignment_with_lhs_text_with_query(req.file, req.node, chosen[1].node) = 0
       /\ \A k \in 1 .. Len(chosen[1].parameters) :
             chosen[1].parameters[k].name # Text(req.file, req.node)
    /\ Kind(req.file, Parent(req.file, req.node)) # "call"

(* C23: the last step answers only symbols of the enclosing scope with the  *)
(* identifier's name: instance variables and instance methods inside an     *)
(* instance method, class variables and singleton methods inside a          *)
(* singleton method.                                                        *)
C23_ScopeMembersOfTheContextKind ==
    ScopeMemberRequested =>
        LET chosen == determine_context(req.file, req.node)[1] IN
        \A k \in 1 .. Len(result) :
            /\ result[k].name = Text(req.file, req.node)
            /\ result[k].scope = chosen.scope
            /\ IF chosen.kind = "SingletonMethod"
               THEN result[k].kind \in { "ClassVariable", "SingletonMethod" }
               ELSE result[k].kind \in { "InstanceVariable", "InstanceMethod" }

(* The state that breaks C23: r inside `def self.q` of class K is asked     *)
(* for, and the answer is the instance method r.                            *)
C23_InstanceMethodInSingletonContext ==
    /\ ScopeMemberRequested
    /\ determine_context(req.file, req.node)[1].kind = "SingletonMethod"
    /\ Len(result) = 1
    /\ result[1].kind = "InstanceMethod"
    /\ result[1].name = "r"

(* In the other direction: q inside the instance method r is answered with  *)
(* the singleton method q.                                                  *)
C23_SingletonMethodInInstanceContext ==
    /\ ScopeMemberRequested
    /\ determine_context(req.file, req.node)[1].kind = "InstanceMethod"
    /\ Len(result) = 1
    /\ result[1].kind = "SingletonMethod"
    /\ result[1].name = "q"

-----------------------------------------------------------------------------
(* What a sequential run builds from the first n indexed directories.       *)
BuiltFromFirst(n) == BuiltFromDirs(SubSeq(IndexedDirs, 1, n))

(* list is the blocks of the first n indexed directories one after the      *)
(* other, each block holding its directory's symbols in some order.         *)
BlocksInSequence(list, n) ==
    /\ Len(list) = Len(BuiltFromFirst(n))
    /\ \A d \in 1 .. n :
          SameMultiset(SubSeq(list, Len(BuiltFromFirst(d - 1)) + 1, Len(BuiltFromFirst(d))),
                       BuiltFrom(DirFiles(IndexedDirs[d])))

C24_WalkAfterPreviousFinished ==
    /\ pc = "walking"
    /\ dir_i = 3
    /\ Len(collected) > 0
    /\ Len(dir_symbols) > 0
    /\ pending # { }

-----------------------------------------------------------------------------
(* The symbols on the parent chain of s, nearest first.                     *)
RECURSIVE ParentChain(_)
ParentChain(s) ==
    IF s.parent = << >> THEN << >> ELSE << s.parent[1] >> \o ParentChain(s.parent[1])

(* In list, every symbol that has a parent comes before that parent, which  *)
(* is an element of the list of the same file, and no symbol is its own     *)
(* ancestor.                                                                *)
ChildrenBeforeParents(list) ==
    \A i \in 1 .. Len(list) :
        /\ list[i].parent # << >> =>
              \E j \in i + 1 .. Len(list) :
                  /\ list[j] = list[i].parent[1]
                  /\ list[j].file = list[i].file
                  /\ \A k \in i .. j : list[k].file = list[i].file
        /\ ~ Has(ParentChain(list[i]), list[i])

(* C25: in the flat list built for a file every symbol that has a parent    *)
(* appears before its parent, the parent a child refers to is the symbol    *)
(* that appears in the list, and the parent relation has no cycle: in every *)
(* list the index holds, each built of whole per-file lists.                *)
C25_ChildrenBeforeParent ==
    /\ ChildrenBeforeParents(symbols)
    /\ ChildrenBeforeParents(collected)
    /\ ChildrenBeforeParents(dir_symbols)

(* C25 witness: the table holds the constant D of class C, class C, module  *)
(* B and module A of one file in that order, each the parent of the one     *)
(* before.                                                                  *)
C25_Witness ==
    /\ pc = "serving"
    /\ \E i \in 1 .. Len(symbols) - 3 :
          /\ symbols[i].kind = "Constant" /\ symbols[i].name = "D"
          /\ symbols[i].parent = << symbols[i + 1] >>
          /\ symbols[i + 1].kind = "Class" /\ symbols[i + 1].name = "C"
          /\ symbols[i + 1].parent = << symbols[i + 2] >>
          /\ symbols[i + 2].parent = << symbols[i + 3] >>
          /\ symbols[i + 3].name = "A" /\ symbols[i + 3].parent = << >>

-----------------------------------------------------------------------------
(* The outermost scope_resolution the node is a segment of (the node        *)
(* itself when it is not qualified).                                        *)
RECURSIVE WholePath(_, _)
WholePath(f, n) ==
    IF Parent(f, n) # 0 /\ Kind(f, Parent(f, n)) = "scope_resolution"
    THEN WholePath(f, Parent(f, n)) ELSE n

(* The constants of a qualified path, left to right.                        *)
RECURSIVE PathSegments(_, _)
PathSegments(f, n) ==
    IF n = 0 THEN << >>
    ELSE IF Kind(f, n) = "constant" THEN << n >>
    ELSE IF Kind(f, n) = "scope_resolution"
        THEN PathSegments(f, ChildByFieldName(f, n, "scope"))
             \o PathSegments(f, ChildByFieldName(f, n, "name"))
    ELSE << >>

SegmentTexts(f, segments) == [i \in 1 .. Len(segments) |-> Text(f, segments[i])]

WithoutSentinel(scope) == IF is_global(scope) THEN Tail(scope) ELSE scope

(* C26: get_full_scope_resolution returns the whole qualified path of the   *)
(* constant expression, left to right, and the same result for every        *)
(* constant segment of that path; for an unqualified constant, that         *)
(* constant alone.                                                          *)
C26_FullPathFromEverySegment ==
    ConstantRequested =>
        LET whole    == WholePath(req.file, req.node)
            segments == PathSegments(req.file, whole)
        IN  /\ WithoutSentinel(get_full_scope_resolution(req.file, req.node))
                  = SegmentTexts(req.file, segments)
            /\ \A k \in 1 .. Len(segments) :
                  get_full_scope_resolution(req.file, segments[k])
                      = get_full_scope_resolution(req.file, req.node)

(* The state that breaks C26: for `::G::S` the result is [$GLOBAL, G, S]    *)
(* from S and [G, S] from G.                                                *)
C26_AbsolutePathDiffersBySegment ==
    /\ ConstantRequested
    /\ Text(req.file, req.node) = "S"
    /\ LET segments == PathSegments(req.file, WholePath(req.file, req.node)) IN
       /\ Len(segments) = 2
       /\ get_full_scope_resolution(req.file, segments[2]) = << GLOBAL_SCOPE_VALUE, "G", "S" >>
       /\ get_full_scope_resolution(req.file, segments[1]) = << "G", "S" >>

-----------------------------------------------------------------------------
(* The ancestors of a node, outermost first.                                *)
RECURSIVE Ancestors(_, _)
Ancestors(f, n) ==
    IF Parent(f, n) = 0 THEN << >> ELSE Ancestors(f, Parent(f, n)) \o << Parent(f, n) >>

(* The class and module declarations around a node, outermost first; a      *)
(* declaration whose name the node is part of is not one of them.           *)
EnclosingDeclarations(f, n) ==
    SelectSeq(Ancestors(f, n),
              LAMBDA p : /\ Kind(f, p) \in { "class", "module" }
                         /\ ~ Has(Subtree(f, ChildByFieldName(f, p, "name")), n))

(* The names of a sequence of declarations, each with all its segments.     *)
RECURSIVE DeclaredNames(_, _)
DeclaredNames(f, declarations) ==
    IF Len(declarations) = 0 THEN << >>
    ELSE SegmentTexts(f, PathSegments(f, ChildByFieldName(f, Head(declarations), "name")))
         \o DeclaredNames(f, Tail(declarations))

NamesOnly(scope) == SelectSeq(scope, LAMBDA segment : segment # GLOBAL_SCOPE_VALUE)

C27_BodyNodeIncludesNearest ==
    /\ ConstantRequested
    /\ Text(req.file, req.node) = "D"
    /\ get_context_scope(req.file, req.node) = << "A", "B", "C" >>

(* Both segments of Outer::Inner, referred to inside module M, have the     *)
(* context [M].                                                             *)
C27_QualifiedNodeSameContext ==
    /\ ConstantRequested
    /\ Text(req.file, req.node) = "Outer"
    /\ Len(PathSegments(req.file, WholePath(req.file, req.node))) = 2
    /\ get_context_scope(req.file, req.node) = << "M" >>

-----------------------------------------------------------------------------
(* The qualified path starts with `::`: its innermost scope_resolution has  *)
(* no scope.                                                                *)
RECURSIVE IsAbsolutePath(_, _)
IsAbsolutePath(f, n) ==
    /\ Kind(f, n) = "scope_resolution"
    /\ \/ ChildByFieldName(f, n, "scope") = 0
       \/ IsAbsolutePath(f, ChildByFieldName(f, n, "scope"))

(* C28: get_full_and_context_scope returns the context scope followed by    *)
(* the explicit qualified path of the node, unless that path is absolute:   *)
(* then it returns the path alone and the lexical context is dropped.       *)
C28_ContextThenPathUnlessAbsolute ==
    ConstantRequested =>
        LET whole == WholePath(req.file, req.node)
            path  == SegmentTexts(req.file, PathSegments(req.file, whole))
        IN  IF IsAbsolutePath(req.file, whole)
            THEN WithoutSentinel(get_full_and_context_scope(req.file, req.node)) = path
            ELSE get_full_and_context_scope(req.file, req.node)
                     = get_context_scope(req.file, req.node) \o path

(* The state that breaks C28: `::Foo` inside module M gives [M, Foo], the   *)
(* context in front of an absolute path.                                    *)
C28_AbsolutePathKeepsContext ==
    /\ ConstantRequested
    /\ IsAbsolutePath(req.file, WholePath(req.file, req.node))
    /\ get_context_scope(req.file, req.node) = << "M" >>
    /\ get_full_and_context_scope(req.file, req.node) = << "M", "Foo" >>

(* The last segment of an absolute path of two segments: the path alone.    *)
C28_AbsolutePathAlone ==
    /\ ConstantRequested
    /\ get_context_scope(req.file, req.node) = << "M" >>
    /\ get_full_and_context_scope(req.file, req.node) = << GLOBAL_SCOPE_VALUE, "G", "S" >>

-----------------------------------------------------------------------------
Begins(token) ==
    { i \in 1 .. Len(notifications) :
        notifications[i].kind = "begin" /\ notifications[i].token = token }

Ends(token) ==
    { i \in 1 .. Len(notifications) :
        notifications[i].kind = "end" /\ notifications[i].token = token }

(* No reported operation is under way: index_dir is not between its two     *)
(* notifications (a call of track is one step).                             *)
NoOperationUnderWay == pc # "walking"

(* C29: progress reporting is well-bracketed: no two begin notifications    *)
(* carry the same token, an end follows a begin of its token, and once the  *)
(* reported operation is over, with Ok or with an error, every begin has    *)
(* exactly one end of its token.                                            *)
C29_ProgressWellBracketed ==
    /\ \A i \in 1 .. Len(notifications) :
          LET token == notifications[i].token IN
          /\ Cardinality(Begins(token)) = 1
          /\ Cardinality(Ends(token)) <= 1
          /\ \A e \in Ends(token) : \E b \in Begins(token) : b < e
    /\ NoOperationUnderWay =>
          \A i \in 1 .. Len(notifications) :
              Cardinality(Ends(notifications[i].token)) = 1

(* The state that breaks C29: track has returned the Err of its operation   *)
(* and the begin it sent has no end, while an earlier call that returned Ok *)
(* has both.                                                                *)
C29_TrackReturnsErrWithoutEnd ==
    /\ notifications = << Notification("begin", 1), Notification("end", 1),
                          Notification("begin", 2) >>
    /\ token_counter = 2

(* In the index: a worker panics between the two notifications of           *)
(* index_dir and the process ends with the begin left open.                 *)
C29_IndexDirPanicsWithoutEnd ==
    /\ pc = "crashed"
    /\ req = NoRequest
    /\ Len(notifications) > 0
    /\ notifications[Len(notifications)] = Notification("begin", progress_token)

-----------------------------------------------------------------------------
(* C30: the sort key of determine_context, [end.row - start.row,            *)
(* end.column - start.column] over unsigned integers, never underflows:     *)
(* every symbol whose range strictly holds the requested identifier has     *)
(* end.row >= start.row and end.column >= start.column.                     *)
C30_SortKeyNeverUnderflows ==
    IdentifierRequested =>
        \A k \in 1 .. Len(ScopeSymbols(req.file, req.node)) :
            ~ RangeUnderflows(ScopeSymbols(req.file, req.node)[k])

(* The state that breaks C30: an identifier inside the method               *)
(*   class W                                                                *)
(*     def foo(x, k)                                                        *)
(*       ...                                                                *)
(*     end                                                                  *)
(* is asked for; the method symbol starts at column 6, the name, and ends   *)
(* at column 5, after `end`; the key of the sort against class W subtracts  *)
(* 6 from 5 and, in a build with overflow checks, panics.                   *)
C30_MethodEndsLeftOfItsName ==
    /\ IdentifierRequested
    /\ overflow_checks
    /\ pc = "crashed"
    /\ outcome = "panic"
    /\ Len(ScopeSymbols(req.file, req.node)) = 2
    /\ \E k \in 1 .. 2 :
          LET s == ScopeSymbols(req.file, req.node)[k] IN
          /\ s.kind = "InstanceMethod"
          /\ s.name = "foo"
          /\ s.start[2] = 6 /\ s.end[2] = 5
          /\ s.end[1] > s.start[1]

(* Without overflow checks the difference wraps and the request is          *)
(* answered.                                                                *)
C30_WrappedKeyAnswered ==
    /\ IdentifierRequested
    /\ ~ overflow_checks
    /\ pc = "responding"
    /\ \E k \in 1 .. Len(ScopeSymbols(req.file, req.node)) :
          RangeUnderflows(ScopeSymbols(req.file, req.node)[k])
=============================================================================
